---- MODULE Spec2Model ----
(***************************************************************************)
(* Originium Circuitry: shape library (src/shapes.js), solver              *)
(* (src/unnamed/part_002) and puzzle generator (src/unnamed/part_000).     *)
(*                                                                         *)
(* Cells are pairs <<row, col>> with 0-based coordinates, as in the code.  *)
(* JavaScript arrays are sequences (1-based here): the rotation with       *)
(* rotationIndex k is rotations[k + 1].                                    *)
(***************************************************************************)
EXTENDS Integers, Sequences, FiniteSets, TLC

VARIABLES
    customShapes,   \* localStorage 'customShapes': sequence of [id, cells]
    library,        \* the library object under construction: id -> entry
    libPc,          \* position of the library build
    solverInput,    \* the arguments of a solver call
    solverCall,     \* the entry point called: "none", "solve_counts", "solve_exact_counts"
    solverOutcome,  \* its return value and the sizes of its per-color searches
    search,         \* a per-color backtracking search, step by step
    genRequest,     \* the config object passed to PuzzleGenerator.generate
    genConfig,      \* this.config: the request with its defaults applied
    genPc,          \* position of generate
    genAttempts,    \* let attempts of generate
    genPlan,        \* budget, shapeSelection, blockerLockBudget, lockDistribution, strategy
    genInner,       \* let attempt of _placeAndValidate
    genPath,        \* which return of _placeAndValidate produced the puzzle
    genPuzzle,      \* the puzzle of the successful attempt
    genElapsed,     \* Date.now() - startTime against maxDuration: "within" or "over"
    genLoop         \* the while loops of _placeBlockers and _placeLocks, draw by draw

libVars == <<customShapes, library, libPc>>
solverVars == <<solverInput, solverCall, solverOutcome, search>>
genVars == <<genRequest, genConfig, genPc, genAttempts, genPlan, genInner, genPath, genPuzzle,
             genElapsed, genLoop>>
vars == <<customShapes, library, libPc, solverInput, solverCall, solverOutcome, search,
          genRequest, genConfig, genPc, genAttempts, genPlan, genInner, genPath, genPuzzle,
          genElapsed, genLoop>>

----------------------------------------------------------------------------
(* Bounds of the model *)

\* longest custom base cell list
MaxCustomLen == 3
\* largest row / column offset of a custom base cell
MaxCoord == 1
\* largest number of cells of a grid of the systematic solver inputs
MaxCells == 9
\* copies of one shape in the solver input that fills the solution caps
CapInstances == 5
\* single attempts generate may start before its deadline has to pass
MaxGenAttempts == 2
\* cells of the largest grid the planning phases are run on
MaxPlanCells == 16

----------------------------------------------------------------------------
(* Generic helpers *)

MinOf(S) == CHOOSE x \in S : \A y \in S : x <= y
MaxOf(S) == CHOOSE x \in S : \A y \in S : x >= y
Range(s) == {s[i] : i \in 1..Len(s)}

\* all sequences over S of length 1..n
RECURSIVE SeqsUpTo(_, _)
SeqsUpTo(S, n) ==
    IF n = 0 THEN {}
    ELSE LET shorter == SeqsUpTo(S, n - 1)
         IN  {<<x>> : x \in S} \cup shorter
               \cup {Append(s, x) : s \in {t \in shorter : Len(t) = n - 1}, x \in S}

----------------------------------------------------------------------------
(* Shape library: src/shapes.js *)

\* Object.entries order of SHAPE_DEFINITIONS
ShapeOrder ==
    << "square-4", "double-square-7", "line-3", "line-4", "L-3", "L-3-mirror",
       "L-4", "L-4-mirror", "L-5", "L-5-mirror", "T-4", "T-6", "T-6-mirror",
       "cross-5", "J-6", "J-6-mirror", "zigzag-6", "zigzag-6-mirror",
       "Z-4", "Z-4-mirror" >>

BuiltinIds == Range(ShapeOrder)

SHAPE_DEFINITIONS ==
    [id \in BuiltinIds |->
       CASE id = "square-4"        -> <<<<0,0>>, <<0,1>>, <<1,0>>, <<1,1>>>>
         [] id = "double-square-7" -> <<<<0,0>>, <<0,1>>, <<1,0>>, <<1,1>>, <<1,2>>, <<2,1>>, <<2,2>>>>
         [] id = "line-3"          -> <<<<0,0>>, <<0,1>>, <<0,2>>>>
         [] id = "line-4"          -> <<<<0,0>>, <<0,1>>, <<0,2>>, <<0,3>>>>
         [] id = "L-3"             -> <<<<0,0>>, <<1,0>>, <<1,1>>>>
         [] id = "L-3-mirror"      -> <<<<0,1>>, <<1,0>>, <<1,1>>>>
         [] id = "L-4"             -> <<<<0,0>>, <<1,0>>, <<2,0>>, <<2,1>>>>
         [] id = "L-4-mirror"      -> <<<<0,1>>, <<1,1>>, <<2,0>>, <<2,1>>>>
         [] id = "L-5"             -> <<<<0,0>>, <<1,0>>, <<2,0>>, <<2,1>>, <<2,2>>>>
         [] id = "L-5-mirror"      -> <<<<0,2>>, <<1,2>>, <<2,0>>, <<2,1>>, <<2,2>>>>
         [] id = "T-4"             -> <<<<0,0>>, <<0,1>>, <<0,2>>, <<1,1>>>>
         [] id = "T-6"             -> <<<<0,0>>, <<1,0>>, <<1,1>>, <<1,2>>, <<2,1>>, <<3,1>>>>
         [] id = "T-6-mirror"      -> <<<<0,2>>, <<1,0>>, <<1,1>>, <<1,2>>, <<2,1>>, <<3,1>>>>
         [] id = "cross-5"         -> <<<<0,1>>, <<1,0>>, <<1,1>>, <<1,2>>, <<2,1>>>>
         [] id = "J-6"             -> <<<<0,2>>, <<1,0>>, <<1,2>>, <<2,0>>, <<2,1>>, <<2,2>>>>
         [] id = "J-6-mirror"      -> <<<<0,0>>, <<1,0>>, <<1,2>>, <<2,0>>, <<2,1>>, <<2,2>>>>
         [] id = "zigzag-6"        -> <<<<0,1>>, <<1,0>>, <<1,1>>, <<2,1>>, <<2,2>>, <<3,1>>>>
         [] id = "zigzag-6-mirror" -> <<<<0,1>>, <<1,1>>, <<1,2>>, <<2,0>>, <<2,1>>, <<3,1>>>>
         [] id = "Z-4"             -> <<<<0,0>>, <<0,1>>, <<1,1>>, <<1,2>>>>
         [] id = "Z-4-mirror"      -> <<<<0,1>>, <<0,2>>, <<1,0>>, <<1,1>>>>]

\* (row, col) -> (col, -row), then shifted so that min row = min col = 0
rotateShape90(cells) ==
    LET rotated == [i \in 1..Len(cells) |-> <<cells[i][2], -cells[i][1]>>]
        minRow  == MinOf({rotated[i][1] : i \in 1..Len(rotated)})
        minCol  == MinOf({rotated[i][2] : i \in 1..Len(rotated)})
    IN  [i \in 1..Len(rotated) |-> <<rotated[i][1] - minRow, rotated[i][2] - minCol>>]

\* same cells, possibly in a different order
shapesEqual(shape1, shape2) ==
    IF Len(shape1) # Len(shape2) THEN FALSE
    ELSE LET set1 == Range(shape1)
             set2 == Range(shape2)
         IN  IF Cardinality(set1) # Cardinality(set2) THEN FALSE
             ELSE \A key \in set1 : key \in set2

\* the loop of getAllRotations: i counts the iterations already made
RECURSIVE RotationLoop(_, _, _)
RotationLoop(rotations, current, i) ==
    IF i >= 3 THEN rotations
    ELSE LET next     == rotateShape90(current)
             isUnique == ~ \E k \in 1..Len(rotations) : shapesEqual(rotations[k], next)
         IN  RotationLoop(IF isUnique THEN Append(rotations, next) ELSE rotations,
                          next, i + 1)

\* getAllRotations keeping every rotation, equal to an earlier one or not
getAllRotations_NoUniqueCheck(cells) ==
    <<cells, rotateShape90(cells), rotateShape90(rotateShape90(cells)),
      rotateShape90(rotateShape90(rotateShape90(cells)))>>

getAllRotations(cells) == RotationLoop(<<cells>>, cells, 0)

getShapeBounds(cells) ==
    LET rows == {cells[i][1] : i \in 1..Len(cells)}
        cols == {cells[i][2] : i \in 1..Len(cells)}
    IN  [minRow |-> MinOf(rows), maxRow |-> MaxOf(rows),
         minCol |-> MinOf(cols), maxCol |-> MaxOf(cols),
         height |-> MaxOf(rows) - MinOf(rows) + 1,
         width  |-> MaxOf(cols) - MinOf(cols) + 1]

\* the record stored under an identifier
LibraryEntry(cells, isCustom) ==
    [baseShape |-> cells,
     rotations |-> getAllRotations(cells),
     cellCount |-> Len(cells),
     isCustom  |-> isCustom]

\* library[id] = entry on an object: an existing key is overwritten
PutEntry(lib, id, entry) ==
    [k \in DOMAIN lib \cup {id} |-> IF k = id THEN entry ELSE lib[k]]

\* the first loop of buildShapeLibrary / refreshShapeLibrary
BuiltinLibrary == [id \in BuiltinIds |-> LibraryEntry(SHAPE_DEFINITIONS[id], FALSE)]

RECURSIVE LoadCustomLoop(_, _, _)
LoadCustomLoop(lib, customs, i) ==
    IF i > Len(customs) THEN lib
    ELSE LoadCustomLoop(PutEntry(lib, customs[i].id, LibraryEntry(customs[i].cells, TRUE)),
                        customs, i + 1)

loadCustomShapesIntoLibrary(lib, customs) == LoadCustomLoop(lib, customs, 1)

buildShapeLibrary(customs) == loadCustomShapesIntoLibrary(BuiltinLibrary, customs)

\* the library the solver and the generator read (no custom shapes stored)
SHAPE_LIBRARY == BuiltinLibrary

----------------------------------------------------------------------------
(* Solver: src/unnamed/part_002 *)

\* concatenation of a sequence of sequences
RECURSIVE Flatten(_)
Flatten(ss) == IF ss = <<>> THEN <<>> ELSE Head(ss) \o Flatten(Tail(ss))

\* a scan of gridState that recognises no blocked cell
BlockedCellsOf_None(gridRows, gridCols, gridState) == <<>>

\* the cells of gridState in state 'blocked', rows first
BlockedCellsOf(gridRows, gridCols, gridState) ==
    LET all == [n \in 1..(gridRows * gridCols) |->
                  <<(n - 1) \div gridCols, (n - 1) % gridCols>>]
        IsBlocked(cell) == gridState[cell[1]][cell[2]] = "blocked"
    IN  SelectSeq(all, IsBlocked)

\* the placements of one rotation: every anchor, rows first, not on a blocked cell
PlacementsOfRotation(shapeId, rotIdx, rotation, gridRows, gridCols, blockedSet) ==
    LET bounds == getShapeBounds(rotation)
        nRows  == IF gridRows - bounds.height + 1 > 0 THEN gridRows - bounds.height + 1 ELSE 0
        nCols  == IF gridCols - bounds.width + 1 > 0 THEN gridCols - bounds.width + 1 ELSE 0
        At(n)  == LET startRow == (n - 1) \div nCols
                      startCol == (n - 1) % nCols
                      cells == [i \in 1..Len(rotation) |->
                                  <<startRow + rotation[i][1], startCol + rotation[i][2]>>]
                  IN  [shapeId |-> shapeId, rotationIndex |-> rotIdx,
                       cells |-> cells, cellSet |-> Range(cells)]
        all    == [n \in 1..(nRows * nCols) |-> At(n)]
        NotOnBlocked(p) == ~ \E cell \in p.cellSet : cell \in blockedSet
    IN  SelectSeq(all, NotOnBlocked)

generatePlacementsForShape(shapeId, gridRows, gridCols, blockedSet) ==
    LET shape == SHAPE_LIBRARY[shapeId]
    IN  Flatten([k \in 1..Len(shape.rotations) |->
                   PlacementsOfRotation(shapeId, k - 1, shape.rotations[k],
                                        gridRows, gridCols, blockedSet)])

generateAllPlacements(gridRows, gridCols, blockedCells, enabledShapes) ==
    LET blockedSet == Range(blockedCells)
    IN  Flatten([k \in 1..Len(enabledShapes) |->
                   generatePlacementsForShape(enabledShapes[k], gridRows, gridCols, blockedSet)])

calculateCounts(cells, gridRows, gridCols) ==
    [rowCounts |-> [r \in 0..(gridRows - 1) |->
                      Cardinality({i \in 1..Len(cells) : cells[i][1] = r})],
     colCounts |-> [c \in 0..(gridCols - 1) |->
                      Cardinality({i \in 1..Len(cells) : cells[i][2] = c})]]

\* countsMatch that forgets the columns
countsMatch_RowsOnly(rowCounts, colCounts, rowReqs, colReqs, color) ==
    \A r \in DOMAIN rowCounts : rowCounts[r] = rowReqs[r][color]

countsMatch(rowCounts, colCounts, rowReqs, colReqs, color) ==
    /\ \A r \in DOMAIN rowCounts : rowCounts[r] = rowReqs[r][color]
    /\ \A c \in DOMAIN colCounts : colCounts[c] = colReqs[c][color]

\* pruning as soon as a required row or column is full
countsExceed_WhenFull(rowCounts, colCounts, rowReqs, colReqs, color) ==
    \/ \E r \in DOMAIN rowCounts : rowReqs[r][color] > 0 /\ rowCounts[r] >= rowReqs[r][color]
    \/ \E c \in DOMAIN colCounts : colReqs[c][color] > 0 /\ colCounts[c] >= colReqs[c][color]

countsExceed(rowCounts, colCounts, rowReqs, colReqs, color) ==
    \/ \E r \in DOMAIN rowCounts : rowCounts[r] > rowReqs[r][color]
    \/ \E c \in DOMAIN colCounts : colCounts[c] > colReqs[c][color]

\* rowCounts[r]++ / colCounts[c]++ for every cell of a placement
AddRows(rowCounts, p) ==
    [r \in DOMAIN rowCounts |-> rowCounts[r] + Cardinality({cell \in p.cellSet : cell[1] = r})]
AddCols(colCounts, p) ==
    [c \in DOMAIN colCounts |-> colCounts[c] + Cardinality({cell \in p.cellSet : cell[2] = c})]

\* Array.from(usedCells): the cells of the placements on the stack, in the
\* order they were added
UsedCellList(currentPlacements) ==
    Flatten([k \in 1..Len(currentPlacements) |-> currentPlacements[k].cells])

\* a per-color search that stops one solution late
SearchCapReached_OneLate(solutions) == Len(solutions) > 100

\* solutions.length >= 100
SearchCapReached(solutions) == Len(solutions) >= 100

\* solutions.length >= 50
PuzzleCapReached(solutions) == Len(solutions) >= 50

\* the sort key of a placement: min over its cells of r * 100 + c
SortKey(p) == MinOf({cell[1] * 100 + cell[2] : cell \in p.cellSet})

\* validPlacements.sort(by SortKey): a stable sort
SortByPosition(placements, gridRows, gridCols) ==
    LET keys == {SortKey(placements[k]) : k \in 1..Len(placements)}
        KeyAt(n) == (((n - 1) \div gridCols) * 100) + ((n - 1) % gridCols)
        WithKey(n) == LET Has(p) == SortKey(p) = KeyAt(n) IN SelectSeq(placements, Has)
    IN  Flatten([n \in 1..(gridRows * gridCols) |->
                   IF KeyAt(n) \in keys THEN WithKey(n) ELSE <<>>])

\* backtrack(startIdx) of solveForColor, with the mutable search state passed
\* along; the value is the solutions array when the call returns.
\* q = [color, valid, rowReqs, colReqs]
RECURSIVE FreeBacktrack(_, _, _, _, _, _, _)
RECURSIVE FreeLoop(_, _, _, _, _, _, _)
FreeBacktrack(q, startIdx, rowCounts, colCounts, usedCells, currentPlacements, solutions) ==
    LET matched == countsMatch(rowCounts, colCounts, q.rowReqs, q.colReqs, q.color)
        sols1 == IF matched
                 THEN Append(solutions, [placements |-> currentPlacements,
                                         cells |-> UsedCellList(currentPlacements)])
                 ELSE solutions
    IN  IF matched /\ SearchCapReached(sols1) THEN sols1
        ELSE IF countsExceed(rowCounts, colCounts, q.rowReqs, q.colReqs, q.color) THEN sols1
        ELSE FreeLoop(q, startIdx, rowCounts, colCounts, usedCells, currentPlacements, sols1)

FreeLoop(q, i, rowCounts, colCounts, usedCells, currentPlacements, solutions) ==
    IF i >= Len(q.valid) THEN solutions
    ELSE LET placement == q.valid[i + 1]
         IN  IF \E cell \in placement.cellSet : cell \in usedCells
             THEN FreeLoop(q, i + 1, rowCounts, colCounts, usedCells, currentPlacements, solutions)
             ELSE LET sols2 == FreeBacktrack(q, i + 1,
                                   AddRows(rowCounts, placement), AddCols(colCounts, placement),
                                   usedCells \cup placement.cellSet,
                                   Append(currentPlacements, placement), solutions)
                  IN  IF SearchCapReached(sols2) THEN sols2
                      ELSE FreeLoop(q, i + 1, rowCounts, colCounts, usedCells,
                                    currentPlacements, sols2)

solveForColor(color, placements, gridRows, gridCols, rowReqs, colReqs, forbiddenCells) ==
    LET forbiddenSet == Range(forbiddenCells)
        NotForbidden(p) == ~ \E cell \in p.cellSet : cell \in forbiddenSet
        validPlacements == SortByPosition(SelectSeq(placements, NotForbidden), gridRows, gridCols)
        q == [color |-> color, valid |-> validPlacements, rowReqs |-> rowReqs, colReqs |-> colReqs]
    IN  FreeBacktrack(q, 0, [r \in 0..(gridRows - 1) |-> 0], [c \in 0..(gridCols - 1) |-> 0],
                      {}, <<>>, <<>>)

\* backtrack(instanceIdx) of solveForColorWithCounts and of
\* solveForColorWithCountsSimple (the same body; only the first records
\* usedShapeIndices).  The value is [solutions, stop]: the solutions array
\* when the call returns and the boolean it returns.
\* q = [color, instances, byShape, rowReqs, colReqs, forbiddenSet, track]
RECURSIVE CountsBacktrack(_, _, _, _, _, _, _, _)
RECURSIVE CountsLoop(_, _, _, _, _, _, _, _, _)
CountsBacktrack(q, instanceIdx, rowCounts, colCounts, usedCells, currentPlacements, usedShapeIndices, solutions) ==
    LET matched == countsMatch(rowCounts, colCounts, q.rowReqs, q.colReqs, q.color)
        sols1 == IF matched
                 THEN Append(solutions,
                             IF q.track
                             THEN [placements |-> currentPlacements,
                                   cells |-> UsedCellList(currentPlacements),
                                   usedShapeIndices |-> usedShapeIndices]
                             ELSE [placements |-> currentPlacements,
                                   cells |-> UsedCellList(currentPlacements)])
                 ELSE solutions
    IN  IF matched /\ SearchCapReached(sols1) THEN [solutions |-> sols1, stop |-> TRUE]
        ELSE IF countsExceed(rowCounts, colCounts, q.rowReqs, q.colReqs, q.color)
             THEN [solutions |-> sols1, stop |-> FALSE]
        ELSE CountsLoop(q, instanceIdx, 0, rowCounts, colCounts, usedCells,
                        currentPlacements, usedShapeIndices, sols1)

\* the two nested loops: instance i, placement j of its shape
CountsLoop(q, i, j, rowCounts, colCounts, usedCells, currentPlacements, usedShapeIndices, solutions) ==
    IF i >= Len(q.instances) THEN [solutions |-> solutions, stop |-> FALSE]
    ELSE LET placements == q.byShape[q.instances[i + 1]]
         IN  IF j >= Len(placements)
             THEN CountsLoop(q, i + 1, 0, rowCounts, colCounts, usedCells,
                             currentPlacements, usedShapeIndices, solutions)
             ELSE LET placement == placements[j + 1]
                  IN  IF \E cell \in placement.cellSet :
                             cell \in usedCells \/ cell \in q.forbiddenSet
                      THEN CountsLoop(q, i, j + 1, rowCounts, colCounts, usedCells,
                                      currentPlacements, usedShapeIndices, solutions)
                      ELSE LET res == CountsBacktrack(q, i + 1,
                                          AddRows(rowCounts, placement),
                                          AddCols(colCounts, placement),
                                          usedCells \cup placement.cellSet,
                                          Append(currentPlacements, placement),
                                          usedShapeIndices \cup {i}, solutions)
                           IN  IF res.stop THEN [solutions |-> res.solutions, stop |-> TRUE]
                               ELSE CountsLoop(q, i, j + 1, rowCounts, colCounts, usedCells,
                                               currentPlacements, usedShapeIndices,
                                               res.solutions)

solveForColorWithCounts(color, shapeInstances, placementsByShape, gridRows, gridCols, rowReqs, colReqs, forbiddenCells) ==
    LET q == [color |-> color, instances |-> shapeInstances, byShape |-> placementsByShape,
              rowReqs |-> rowReqs, colReqs |-> colReqs,
              forbiddenSet |-> Range(forbiddenCells), track |-> TRUE]
    IN  CountsBacktrack(q, 0, [r \in 0..(gridRows - 1) |-> 0], [c \in 0..(gridCols - 1) |-> 0],
                        {}, <<>>, {}, <<>>).solutions

solveForColorWithCountsSimple(color, shapeInstances, placementsByShape, gridRows, gridCols, rowReqs, colReqs, forbiddenCells) ==
    LET q == [color |-> color, instances |-> shapeInstances, byShape |-> placementsByShape,
              rowReqs |-> rowReqs, colReqs |-> colReqs,
              forbiddenSet |-> Range(forbiddenCells), track |-> FALSE]
    IN  CountsBacktrack(q, 0, [r \in 0..(gridRows - 1) |-> 0], [c \in 0..(gridCols - 1) |-> 0],
                        {}, <<>>, {}, <<>>).solutions

\* rowReqs.some(r => r[color] > 0) || colReqs.some(c => c[color] > 0)
HasReq(rowReqs, colReqs, color) ==
    \/ \E r \in DOMAIN rowReqs : rowReqs[r][color] > 0
    \/ \E c \in DOMAIN colReqs : colReqs[c][color] > 0

Failure(message) == [success |-> FALSE, message |-> message]

\* the return value of a solver entry point plus, as a history of the call,
\* the number of solutions each per-color search returned
Outcome(result, searches) == [result |-> result, searches |-> searches]

\* the loop over blueSolutions of one green solution; acc = [solutions]
RECURSIVE PushBlue(_, _, _, _)
PushBlue(greenSol, blueSolutions, k, solutions) ==
    IF k > Len(blueSolutions) THEN solutions
    ELSE LET pushed == Append(solutions,
                              [green |-> greenSol.cells, blue |-> blueSolutions[k].cells,
                               greenPlacements |-> greenSol.placements,
                               bluePlacements |-> blueSolutions[k].placements])
         IN  IF PuzzleCapReached(pushed) THEN pushed
             ELSE PushBlue(greenSol, blueSolutions, k + 1, pushed)

GreenOnly(greenSol) ==
    [green |-> greenSol.cells, blue |-> <<>>,
     greenPlacements |-> greenSol.placements, bluePlacements |-> <<>>]

\* for (const greenSol of greenSolutions) of runSolver
\* q = [gridRows, gridCols, rowReqs, colReqs, blockedCells, allPlacements, hasBlueReq]
RECURSIVE ComposeFree(_, _, _, _, _)
ComposeFree(q, greenSolutions, g, solutions, searches) ==
    IF g > Len(greenSolutions) THEN [solutions |-> solutions, searches |-> searches]
    ELSE LET greenSol == greenSolutions[g]
             forbiddenForBlue == q.blockedCells \o greenSol.cells
             blueSolutions == solveForColor("blue", q.allPlacements, q.gridRows, q.gridCols,
                                            q.rowReqs, q.colReqs, forbiddenForBlue)
             sols1 == IF q.hasBlueReq
                      THEN PushBlue(greenSol, blueSolutions, 1, solutions)
                      ELSE Append(solutions, GreenOnly(greenSol))
             log1 == IF q.hasBlueReq THEN Append(searches, Len(blueSolutions)) ELSE searches
         IN  IF PuzzleCapReached(sols1) THEN [solutions |-> sols1, searches |-> log1]
             ELSE ComposeFree(q, greenSolutions, g + 1, sols1, log1)

runSolver(gridRows, gridCols, gridState, rowReqs, colReqs, enabledShapes) ==
    LET blockedCells == BlockedCellsOf(gridRows, gridCols, gridState)
        hasGreenReq == HasReq(rowReqs, colReqs, "green")
        hasBlueReq == HasReq(rowReqs, colReqs, "blue")
        allPlacements == generateAllPlacements(gridRows, gridCols, blockedCells, enabledShapes)
        greenFound == solveForColor("green", allPlacements, gridRows, gridCols,
                                    rowReqs, colReqs, blockedCells)
        greenSolutions == IF hasGreenReq THEN greenFound
                          ELSE <<[placements |-> <<>>, cells |-> <<>>]>>
        greenLog == IF hasGreenReq THEN <<Len(greenFound)>> ELSE <<>>
        q == [gridRows |-> gridRows, gridCols |-> gridCols, rowReqs |-> rowReqs,
              colReqs |-> colReqs, blockedCells |-> blockedCells,
              allPlacements |-> allPlacements, hasBlueReq |-> hasBlueReq]
        composed == ComposeFree(q, greenSolutions, 1, <<>>, greenLog)
    IN  IF ~hasGreenReq /\ ~hasBlueReq
        THEN Outcome(Failure("No requirements specified"), <<>>)
        ELSE IF Len(allPlacements) = 0
        THEN Outcome(Failure("No valid shape placements possible"), <<>>)
        ELSE IF hasGreenReq /\ Len(greenFound) = 0
        THEN Outcome(Failure("No valid green configuration found"), greenLog)
        ELSE IF Len(composed.solutions) = 0
        THEN Outcome(Failure("No valid solution found"), composed.searches)
        ELSE Outcome([success |-> TRUE, solutions |-> composed.solutions], composed.searches)

\* the violations validateSolution lists in errors
validateSolution(solution, gridRows, gridCols, rowReqs, colReqs) ==
    LET greenCounts == calculateCounts(solution.green, gridRows, gridCols)
        blueCounts == calculateCounts(solution.blue, gridRows, gridCols)
        errors ==
            {<<"Row", r, "green">> : r \in {x \in 0..(gridRows - 1) :
                                             greenCounts.rowCounts[x] # rowReqs[x].green}}
            \cup {<<"Col", c, "green">> : c \in {x \in 0..(gridCols - 1) :
                                             greenCounts.colCounts[x] # colReqs[x].green}}
            \cup {<<"Row", r, "blue">> : r \in {x \in 0..(gridRows - 1) :
                                             blueCounts.rowCounts[x] # rowReqs[x].blue}}
            \cup {<<"Col", c, "blue">> : c \in {x \in 0..(gridCols - 1) :
                                             blueCounts.colCounts[x] # colReqs[x].blue}}
            \cup {<<"Overlap", cell>> : cell \in Range(solution.green) \cap Range(solution.blue)}
    IN  [valid |-> errors = {}, errors |-> errors]

\* shapeInstances: count copies of every id, in the order of Object.entries;
\* shapeCounts is a sequence of [id, count] records
ShapeInstancesOf(shapeCounts) ==
    Flatten([k \in 1..Len(shapeCounts) |->
               [n \in 1..shapeCounts[k].count |-> shapeCounts[k].id]])

\* blue is handed every instance, the ones green used included
RemainingInstances_All(shapeInstances, usedShapeIndices) == shapeInstances

\* the instances whose index (0-based) is not in usedShapeIndices
RemainingInstances(shapeInstances, usedShapeIndices) ==
    LET keep == {k \in 1..Len(shapeInstances) : (k - 1) \notin usedShapeIndices}
        Nth(n) == CHOOSE k \in keep : Cardinality({m \in keep : m < k}) = n - 1
    IN  [n \in 1..Cardinality(keep) |-> shapeInstances[Nth(n)]]

\* for (const greenSol of greenSolutions) of runSolverWithShapeCounts
\* q = [gridRows, gridCols, rowReqs, colReqs, blockedCells, shapeInstances,
\*      placementsByShape, hasBlueReq]
RECURSIVE ComposeCounts(_, _, _, _, _)
ComposeCounts(q, greenSolutions, g, solutions, searches) ==
    IF g > Len(greenSolutions) THEN [solutions |-> solutions, searches |-> searches]
    ELSE LET greenSol == greenSolutions[g]
             forbiddenForBlue == q.blockedCells \o greenSol.cells
             remaining == RemainingInstances(q.shapeInstances, greenSol.usedShapeIndices)
             skip == q.hasBlueReq /\ Len(remaining) = 0
             blueSolutions == solveForColorWithCountsSimple("blue", remaining,
                                  q.placementsByShape, q.gridRows, q.gridCols,
                                  q.rowReqs, q.colReqs, forbiddenForBlue)
             sols1 == IF skip THEN solutions
                      ELSE IF q.hasBlueReq
                      THEN PushBlue(greenSol, blueSolutions, 1, solutions)
                      ELSE Append(solutions, GreenOnly(greenSol))
             log1 == IF q.hasBlueReq /\ ~skip THEN Append(searches, Len(blueSolutions))
                     ELSE searches
         IN  IF ~skip /\ PuzzleCapReached(sols1) THEN [solutions |-> sols1, searches |-> log1]
             ELSE ComposeCounts(q, greenSolutions, g + 1, sols1, log1)

runSolverWithShapeCounts(gridRows, gridCols, gridState, rowReqs, colReqs, shapeCounts) ==
    LET blockedCells == BlockedCellsOf(gridRows, gridCols, gridState)
        hasGreenReq == HasReq(rowReqs, colReqs, "green")
        hasBlueReq == HasReq(rowReqs, colReqs, "blue")
        blockedSet == Range(blockedCells)
        shapeInstances == ShapeInstancesOf(shapeCounts)
        placementsByShape ==
            [id \in {shapeCounts[k].id : k \in 1..Len(shapeCounts)} |->
               generatePlacementsForShape(id, gridRows, gridCols, blockedSet)]
        greenFound == solveForColorWithCounts("green", shapeInstances, placementsByShape,
                          gridRows, gridCols, rowReqs, colReqs, blockedCells)
        greenSolutions == IF hasGreenReq THEN greenFound
                          ELSE <<[placements |-> <<>>, cells |-> <<>>,
                                  usedShapeIndices |-> {}]>>
        greenLog == IF hasGreenReq THEN <<Len(greenFound)>> ELSE <<>>
        q == [gridRows |-> gridRows, gridCols |-> gridCols, rowReqs |-> rowReqs,
              colReqs |-> colReqs, blockedCells |-> blockedCells,
              shapeInstances |-> shapeInstances, placementsByShape |-> placementsByShape,
              hasBlueReq |-> hasBlueReq]
        composed == ComposeCounts(q, greenSolutions, 1, <<>>, greenLog)
    IN  IF ~hasGreenReq /\ ~hasBlueReq
        THEN Outcome(Failure("No requirements specified"), <<>>)
        ELSE IF hasGreenReq /\ Len(greenFound) = 0
        THEN Outcome(Failure("No valid green configuration found with selected shapes"),
                     greenLog)
        ELSE IF Len(composed.solutions) = 0
        THEN Outcome(Failure("No valid solution found with selected shape counts"),
                     composed.searches)
        ELSE Outcome([success |-> TRUE, solutions |-> composed.solutions], composed.searches)

\* a placement never counts as overlapping
FitOverlaps_Never(placement, usedCells) == FALSE

\* placement.cells.some(([r, c]) => usedCells.has(`${r},${c}`))
FitOverlaps(placement, usedCells) == placement.cellSet \cap usedCells # {}

\* return solutions.length >= 50 of runFitAllPiecesSolver
FitCapReached(solutions) == Len(solutions) >= 50

\* backtrack of runFitAllPiecesSolver; the result is [solutions, stop]
\* q = [shapeInstances, placementsByShape]
RECURSIVE FitBacktrack(_, _, _, _, _)
RECURSIVE FitLoop(_, _, _, _, _, _)
FitBacktrack(q, instanceIdx, usedCells, currentPlacements, solutions) ==
    IF instanceIdx >= Len(q.shapeInstances)
    THEN LET pushed == Append(solutions,
                              [green |-> UsedCellList(currentPlacements), blue |-> <<>>,
                               greenPlacements |-> currentPlacements,
                               bluePlacements |-> <<>>])
         IN  [solutions |-> pushed, stop |-> FitCapReached(pushed)]
    ELSE FitLoop(q, instanceIdx, 1, usedCells, currentPlacements, solutions)

\* for (const placement of placements), from the i-th placement
FitLoop(q, instanceIdx, i, usedCells, currentPlacements, solutions) ==
    LET placements == q.placementsByShape[q.shapeInstances[instanceIdx + 1]]
    IN  IF i > Len(placements) THEN [solutions |-> solutions, stop |-> FALSE]
        ELSE IF FitOverlaps(placements[i], usedCells)
        THEN FitLoop(q, instanceIdx, i + 1, usedCells, currentPlacements, solutions)
        ELSE LET deeper == FitBacktrack(q, instanceIdx + 1,
                                        usedCells \cup placements[i].cellSet,
                                        Append(currentPlacements, placements[i]), solutions)
             IN  IF deeper.stop THEN deeper
                 ELSE FitLoop(q, instanceIdx, i + 1, usedCells, currentPlacements,
                              deeper.solutions)

\* fit_all_pieces; the message about a shape without placement stands for the
\* text that ends with the shape's name
runFitAllPiecesSolver(gridRows, gridCols, blockedCells, shapeCounts) ==
    LET blockedSet == Range(blockedCells)
        shapeInstances == ShapeInstancesOf(shapeCounts)
        placementsByShape ==
            [id \in {shapeCounts[k].id : k \in 1..Len(shapeCounts)} |->
               generatePlacementsForShape(id, gridRows, gridCols, blockedSet)]
        found == FitBacktrack([shapeInstances |-> shapeInstances,
                               placementsByShape |-> placementsByShape],
                              0, {}, <<>>, <<>>)
    IN  IF Len(shapeInstances) = 0 THEN Failure("No shapes to place")
        ELSE IF \E id \in DOMAIN placementsByShape : Len(placementsByShape[id]) = 0
        THEN Failure("No valid placements for shape")
        ELSE IF Len(found.solutions) = 0
        THEN Failure("Could not fit all pieces on the grid")
        ELSE [success |-> TRUE, solutions |-> found.solutions]

----------------------------------------------------------------------------
(* Library build as a state machine *)

CustomIds == {"custom-1", "square-4"}
CustomCells == (0..MaxCoord) \X (0..MaxCoord)
CustomCellLists == SeqsUpTo(CustomCells, MaxCustomLen)

\* what localStorage may hold: nothing, or one custom definition
CustomStores ==
    {<<>>} \cup {<<[id |-> id, cells |-> cl]>> : id \in CustomIds, cl \in CustomCellLists}

LibIdle ==
    /\ customShapes = <<>>
    /\ library = <<>>
    /\ libPc = "unused"

SolverIdle ==
    /\ solverInput = <<>>
    /\ solverCall = "none"
    /\ solverOutcome = <<>>
    /\ search = <<>>

GenIdle ==
    /\ genRequest = <<>>
    /\ genConfig = <<>>
    /\ genPc = "unused"
    /\ genAttempts = 0
    /\ genPlan = <<>>
    /\ genInner = 0
    /\ genPath = "none"
    /\ genPuzzle = <<>>
    /\ genElapsed = "within"
    /\ genLoop = <<>>

LibInit ==
    /\ customShapes \in CustomStores
    /\ library = <<>>
    /\ libPc = "start"
    /\ SolverIdle
    /\ GenIdle

\* const SHAPE_LIBRARY = buildShapeLibrary()
BuildShapeLibrary ==
    /\ libPc = "start"
    /\ library' = buildShapeLibrary(customShapes)
    /\ libPc' = "built"
    /\ UNCHANGED <<customShapes, solverVars, genVars>>

\* refreshShapeLibrary(): every key deleted, then both loading loops again
RefreshShapeLibrary ==
    /\ libPc = "built"
    /\ library' = loadCustomShapesIntoLibrary(BuiltinLibrary, customShapes)
    /\ libPc' = "refreshed"
    /\ UNCHANGED <<customShapes, solverVars, genVars>>

LibNext == BuildShapeLibrary \/ RefreshShapeLibrary

SpecLib == LibInit /\ [][LibNext]_vars

----------------------------------------------------------------------------
(* Solver calls as a state machine: Init draws the arguments *)

EmptyGrid(gridRows, gridCols) ==
    [r \in 0..(gridRows - 1) |-> [c \in 0..(gridCols - 1) |-> "empty"]]

FullGrid(gridRows, gridCols, state) ==
    [r \in 0..(gridRows - 1) |-> [c \in 0..(gridCols - 1) |-> state]]

GridCells(gridRows, gridCols) == (0..(gridRows - 1)) \X (0..(gridCols - 1))

\* one cell of an empty grid set to a state
GridWith(gridRows, gridCols, cell, state) ==
    [r \in 0..(gridRows - 1) |-> [c \in 0..(gridCols - 1) |->
        IF <<r, c>> = cell THEN state ELSE "empty"]]

\* grids with one blocked or locked cell, and the grid with every cell blocked
MarkedGrids(gridRows, gridCols) ==
    {GridWith(gridRows, gridCols, cell, state) :
        cell \in GridCells(gridRows, gridCols),
        state \in {"blocked", "locked-green", "locked-blue"}}
    \cup {FullGrid(gridRows, gridCols, "blocked")}

\* requirement vectors counted from a green and a blue cell set
ReqsFrom(green, blue, gridRows, gridCols) ==
    [rows |-> [r \in 0..(gridRows - 1) |->
                 [green |-> Cardinality({cell \in green : cell[1] = r}),
                  blue  |-> Cardinality({cell \in blue : cell[1] = r})]],
     cols |-> [c \in 0..(gridCols - 1) |->
                 [green |-> Cardinality({cell \in green : cell[2] = c}),
                  blue  |-> Cardinality({cell \in blue : cell[2] = c})]]]

\* uniform requirements: every row and every column asks for the same counts
UniformReqs(gridRows, gridCols, green, blue) ==
    [rows |-> [r \in 0..(gridRows - 1) |-> [green |-> green, blue |-> blue]],
     cols |-> [c \in 0..(gridCols - 1) |-> [green |-> green, blue |-> blue]]]

\* cell sets the requirements are counted from: nothing, or one line-3 or
\* square-4 somewhere on the grid
TargetCellSets(gridRows, gridCols) ==
    LET ps == generateAllPlacements(gridRows, gridCols, <<>>, <<"line-3", "square-4">>)
    IN  {{}} \cup {ps[k].cellSet : k \in 1..Len(ps)}

\* shapeCounts objects of the systematic inputs
ShapeCountChoices ==
    { <<[id |-> "line-3", count |-> 1]>>,
      <<[id |-> "square-4", count |-> 1], [id |-> "line-3", count |-> 2]>>,
      <<[id |-> "L-3", count |-> 1], [id |-> "L-3-mirror", count |-> 1],
        [id |-> "square-4", count |-> 1]>> }

SolverArgs(gridRows, gridCols, gridState, reqs, shapeCounts) ==
    [gridRows |-> gridRows, gridCols |-> gridCols, gridState |-> gridState,
     rowReqs |-> reqs.rows, colReqs |-> reqs.cols, shapeCounts |-> shapeCounts]

\* the grid sizes <<rows, cols>> of at most MaxCells cells
GridSizes == {d \in (1..MaxCells) \X (1..MaxCells) : d[1] * d[2] <= MaxCells}

SystematicInputs ==
    UNION {
      LET R == dims[1]
          C == dims[2]
      IN
      {SolverArgs(R, C, EmptyGrid(R, C), ReqsFrom(g, b, R, C), sc) :
          g \in TargetCellSets(R, C), b \in TargetCellSets(R, C), sc \in ShapeCountChoices}
      \cup
      {SolverArgs(R, C, grid, ReqsFrom(g, {}, R, C), sc) :
          g \in TargetCellSets(R, C), grid \in MarkedGrids(R, C), sc \in ShapeCountChoices}
      : dims \in GridSizes }

\* inputs with many solutions, and the end-to-end scenarios of the solver
ScenarioInputs ==
    { \* 3x3, every row and column green:3; copies of line-3
      SolverArgs(3, 3, EmptyGrid(3, 3), UniformReqs(3, 3, 3, 0),
                 <<[id |-> "line-3", count |-> CapInstances]>>),
      \* 3x3, every row and column green:3, only square-4
      SolverArgs(3, 3, EmptyGrid(3, 3), UniformReqs(3, 3, 3, 0),
                 <<[id |-> "square-4", count |-> 2]>>),
      \* 3x3 filled with the trominoes
      SolverArgs(3, 3, EmptyGrid(3, 3), UniformReqs(3, 3, 3, 0),
                 <<[id |-> "line-3", count |-> 3], [id |-> "L-3", count |-> 2],
                   [id |-> "L-3-mirror", count |-> 2]>>),
      \* 3x4 filled with the trominoes: more than 100 green solutions
      SolverArgs(3, 4, EmptyGrid(3, 4),
                 [rows |-> [r \in 0..2 |-> [green |-> 4, blue |-> 0]],
                  cols |-> [c \in 0..3 |-> [green |-> 3, blue |-> 0]]],
                 <<[id |-> "line-3", count |-> 2], [id |-> "L-3", count |-> 1],
                   [id |-> "L-3-mirror", count |-> 1]>>),
      \* 2x3, one row green and one row blue, with more blue answers than the
      \* whole-puzzle cap
      SolverArgs(2, 3, EmptyGrid(2, 3),
                 ReqsFrom({<<0, 0>>, <<0, 1>>, <<0, 2>>}, {<<1, 0>>, <<1, 1>>, <<1, 2>>}, 2, 3),
                 <<[id |-> "line-3", count |-> CapInstances]>>),
      \* 4x4 with two colors side by side
      SolverArgs(4, 4, EmptyGrid(4, 4),
                 [rows |-> [r \in 0..3 |-> [green |-> 2, blue |-> 2]],
                  cols |-> [c \in 0..3 |-> IF c < 2 THEN [green |-> 4, blue |-> 0]
                                                  ELSE [green |-> 0, blue |-> 4]]],
                 <<[id |-> "square-4", count |-> 4]>>) }

SolverInputs == SystematicInputs \cup ScenarioInputs

\* enabledShapes of a free-count call: the identifiers of shapeCounts
EnabledShapesOf(shapeCounts) == [k \in 1..Len(shapeCounts) |-> shapeCounts[k].id]

SolverInit ==
    /\ solverInput \in SolverInputs
    /\ solverCall = "none"
    /\ solverOutcome = <<>>
    /\ search = <<>>
    /\ LibIdle
    /\ GenIdle

\* solve_counts
RunSolver ==
    /\ solverCall = "none"
    /\ solverInput # <<>>
    /\ solverCall' = "solve_counts"
    /\ solverOutcome' = runSolver(solverInput.gridRows, solverInput.gridCols,
                                  solverInput.gridState, solverInput.rowReqs,
                                  solverInput.colReqs,
                                  EnabledShapesOf(solverInput.shapeCounts))
    /\ UNCHANGED <<solverInput, search, libVars, genVars>>

\* solve_exact_counts
RunSolverWithShapeCounts ==
    /\ solverCall = "none"
    /\ solverInput # <<>>
    /\ solverCall' = "solve_exact_counts"
    /\ solverOutcome' = runSolverWithShapeCounts(solverInput.gridRows, solverInput.gridCols,
                                  solverInput.gridState, solverInput.rowReqs,
                                  solverInput.colReqs, solverInput.shapeCounts)
    /\ UNCHANGED <<solverInput, search, libVars, genVars>>

SolverNext == RunSolver \/ RunSolverWithShapeCounts

SpecSolver == SolverInit /\ [][SolverNext]_vars

----------------------------------------------------------------------------
(* fit_all_pieces calls as a state machine: Init draws the arguments *)

FitArgs(gridRows, gridCols, blockedCells, shapeCounts) ==
    [gridRows |-> gridRows, gridCols |-> gridCols, blockedCells |-> blockedCells,
     shapeCounts |-> shapeCounts]

\* shapeCounts objects of the fit_all_pieces calls
FitShapeCounts ==
    ShapeCountChoices
    \cup { <<>>,
           <<[id |-> "square-4", count |-> 2]>>,
           <<[id |-> "line-3", count |-> 3]>>,
           <<[id |-> "L-3", count |-> 1], [id |-> "line-3", count |-> 1]>>,
           <<[id |-> "L-3", count |-> 2], [id |-> "line-4", count |-> 0]>> }

\* nothing blocked, one cell blocked, or two cells blocked
BlockedLists(gridRows, gridCols) ==
    {<<>>} \cup {<<cell>> : cell \in GridCells(gridRows, gridCols)}
    \cup {<<<<0, 0>>, cell>> : cell \in GridCells(gridRows, gridCols) \ {<<0, 0>>}}

FitInputs ==
    UNION {{FitArgs(d[1], d[2], blockedCells, shapeCounts) :
              blockedCells \in BlockedLists(d[1], d[2]), shapeCounts \in FitShapeCounts} :
           d \in GridSizes}
    \cup {FitArgs(4, 4, <<>>, <<[id |-> "square-4", count |-> 4]>>)}

FitInit ==
    /\ solverInput \in FitInputs
    /\ solverCall = "none"
    /\ solverOutcome = <<>>
    /\ search = <<>>
    /\ LibIdle
    /\ GenIdle

\* fit_all_pieces
RunFitAllPieces ==
    /\ solverCall = "none"
    /\ solverInput # <<>>
    /\ solverCall' = "fit_all_pieces"
    /\ solverOutcome' = Outcome(runFitAllPiecesSolver(solverInput.gridRows,
                                    solverInput.gridCols, solverInput.blockedCells,
                                    solverInput.shapeCounts), <<>>)
    /\ UNCHANGED <<solverInput, search, libVars, genVars>>

FitNext == RunFitAllPieces

SpecFit == FitInit /\ [][FitNext]_vars

----------------------------------------------------------------------------
(* The per-color backtracking searches, step by step *)

\* usedCells.add, rowCounts[r]++, colCounts[c]++ for the k-th cell onwards
\* st = [rowCounts, colCounts, usedCells, currentPlacements, usedShapeIndices]
RECURSIVE AddCells(_, _, _)
AddCells(st, cells, k) ==
    IF k > Len(cells) THEN st
    ELSE AddCells([st EXCEPT !.usedCells = @ \cup {cells[k]},
                             !.rowCounts[cells[k][1]] = @ + 1,
                             !.colCounts[cells[k][2]] = @ + 1],
                  cells, k + 1)

\* usedCells.delete, rowCounts[r]--, colCounts[c]-- for the k-th cell onwards
RECURSIVE DeleteCells(_, _, _)
DeleteCells(st, cells, k) ==
    IF k > Len(cells) THEN st
    ELSE DeleteCells([st EXCEPT !.usedCells = @ \ {cells[k]},
                                !.rowCounts[cells[k][1]] = @ - 1,
                                !.colCounts[cells[k][2]] = @ - 1],
                     cells, k + 1)

\* currentPlacements.push(placement); usedShapeIndices.add(i); the cell loop
DoPlacement(st, placement, i, track) ==
    AddCells([st EXCEPT !.currentPlacements = Append(@, placement),
                        !.usedShapeIndices = IF track THEN @ \cup {i} ELSE @],
             placement.cells, 1)

\* the pop that leaves the counters as they are
UndoPlacement_KeepCounts(st, placement, i, track) ==
    [st EXCEPT !.currentPlacements = SubSeq(@, 1, Len(@) - 1),
               !.usedShapeIndices = IF track THEN @ \ {i} ELSE @,
               !.usedCells = @ \ placement.cellSet]

\* currentPlacements.pop(); usedShapeIndices.delete(i); the cell loop
UndoPlacement(st, placement, i, track) ==
    DeleteCells([st EXCEPT !.currentPlacements = SubSeq(@, 1, Len(@) - 1),
                           !.usedShapeIndices = IF track THEN @ \ {i} ELSE @],
                placement.cells, 1)

\* the state a search starts with; frames holds the loop variables of the
\* calls of backtrack that have not returned, saved the search state at the
\* push of every placement on the stack
NewSearch(mode, color, valid, instances, byShape, forbiddenSet) ==
    [mode |-> mode, color |-> color, valid |-> valid, instances |-> instances,
     byShape |-> byShape, forbiddenSet |-> forbiddenSet,
     st |-> [rowCounts |-> [r \in 0..(solverInput.gridRows - 1) |-> 0],
             colCounts |-> [c \in 0..(solverInput.gridCols - 1) |-> 0],
             usedCells |-> {}, currentPlacements |-> <<>>, usedShapeIndices |-> {}],
     solutions |-> <<>>, frames |-> <<[i |-> 0, j |-> 0]>>, pc |-> "check",
     stop |-> FALSE, saved |-> <<>>]

Searching == search # <<>>
TopFrame == search.frames[Len(search.frames)]

\* the placements the inner loop of the top frame runs over
LoopPlacements ==
    IF search.mode = "free" THEN search.valid
    ELSE IF TopFrame.i < Len(search.instances)
         THEN search.byShape[search.instances[TopFrame.i + 1]]
         ELSE <<>>

\* the loop variable that picks the placement
LoopIndex == IF search.mode = "free" THEN TopFrame.i ELSE TopFrame.j

HasCandidate == LoopIndex < Len(LoopPlacements)
Candidate == LoopPlacements[LoopIndex + 1]

\* const overlaps = placement.cells.some(...)
CandidateOverlaps ==
    \E cell \in Range(Candidate.cells) :
        \/ cell \in search.st.usedCells
        \/ search.mode # "free" /\ cell \in search.forbiddenSet

\* the next pass of the loop over placements
Advanced(frames) ==
    [frames EXCEPT ![Len(frames)] =
        IF search.mode = "free" THEN [@ EXCEPT !.i = @ + 1] ELSE [@ EXCEPT !.j = @ + 1]]

\* return from the running call of backtrack
Returning(solutions, stop) ==
    LET frames == SubSeq(search.frames, 1, Len(search.frames) - 1)
    IN  [search EXCEPT !.solutions = solutions, !.frames = frames, !.stop = stop,
                       !.pc = IF frames = <<>> THEN "done" ELSE "after"]

SearchBlocked ==
    BlockedCellsOf(solverInput.gridRows, solverInput.gridCols, solverInput.gridState)

SearchPlacementsByShape ==
    [id \in Range(EnabledShapesOf(solverInput.shapeCounts)) |->
       generatePlacementsForShape(id, solverInput.gridRows, solverInput.gridCols,
                                  Range(SearchBlocked))]

\* the inputs whose searches are followed step by step
SearchInputs ==
    { SolverArgs(2, 3, EmptyGrid(2, 3),
                 ReqsFrom({<<0, 0>>, <<0, 1>>, <<0, 2>>}, {<<1, 0>>, <<1, 1>>, <<1, 2>>}, 2, 3),
                 <<[id |-> "square-4", count |-> 1], [id |-> "line-3", count |-> 2]>>),
      SolverArgs(3, 3, GridWith(3, 3, <<1, 1>>, "blocked"), UniformReqs(3, 3, 2, 0),
                 <<[id |-> "L-3", count |-> 1], [id |-> "L-3-mirror", count |-> 1],
                   [id |-> "square-4", count |-> 1]>>),
      SolverArgs(3, 3, EmptyGrid(3, 3), UniformReqs(3, 3, 3, 0),
                 <<[id |-> "line-3", count |-> CapInstances]>>),
      SolverArgs(3, 4, EmptyGrid(3, 4),
                 [rows |-> [r \in 0..2 |-> [green |-> 4, blue |-> 0]],
                  cols |-> [c \in 0..3 |-> [green |-> 3, blue |-> 0]]],
                 <<[id |-> "line-3", count |-> 2], [id |-> "L-3", count |-> 1],
                   [id |-> "L-3-mirror", count |-> 1]>>) }

SearchInit ==
    /\ solverInput \in SearchInputs
    /\ solverCall = "none"
    /\ solverOutcome = <<>>
    /\ search = <<>>
    /\ LibIdle
    /\ GenIdle

\* solveForColor('green', ...) of runSolver up to backtrack(0)
StartFreeSearch ==
    /\ ~Searching
    /\ HasReq(solverInput.rowReqs, solverInput.colReqs, "green")
    /\ LET all == generateAllPlacements(solverInput.gridRows, solverInput.gridCols,
                      SearchBlocked, EnabledShapesOf(solverInput.shapeCounts))
           NotForbidden(p) == ~ \E cell \in p.cellSet : cell \in Range(SearchBlocked)
       IN  search' = NewSearch("free", "green",
                         SortByPosition(SelectSeq(all, NotForbidden),
                                        solverInput.gridRows, solverInput.gridCols),
                         <<>>, <<>>, Range(SearchBlocked))
    /\ UNCHANGED <<solverInput, solverCall, solverOutcome, libVars, genVars>>

\* solveForColor('blue', ...) of runSolver for a green solution, up to backtrack(0)
StartFreeBlueSearch ==
    /\ ~Searching
    /\ HasReq(solverInput.rowReqs, solverInput.colReqs, "green")
    /\ HasReq(solverInput.rowReqs, solverInput.colReqs, "blue")
    /\ LET all == generateAllPlacements(solverInput.gridRows, solverInput.gridCols,
                      SearchBlocked, EnabledShapesOf(solverInput.shapeCounts))
           greenSolutions ==
               solveForColor("green", all, solverInput.gridRows, solverInput.gridCols,
                             solverInput.rowReqs, solverInput.colReqs, SearchBlocked)
       IN  \E g \in 1..Len(greenSolutions) :
             LET forbiddenForBlue == Range(SearchBlocked \o greenSolutions[g].cells)
                 NotForbidden(p) == ~ \E cell \in p.cellSet : cell \in forbiddenForBlue
             IN  search' = NewSearch("free", "blue",
                               SortByPosition(SelectSeq(all, NotForbidden),
                                              solverInput.gridRows, solverInput.gridCols),
                               <<>>, <<>>, forbiddenForBlue)
    /\ UNCHANGED <<solverInput, solverCall, solverOutcome, libVars, genVars>>

\* solveForColorWithCounts('green', ...) of runSolverWithShapeCounts up to backtrack(0)
StartCountsSearch ==
    /\ ~Searching
    /\ HasReq(solverInput.rowReqs, solverInput.colReqs, "green")
    /\ search' = NewSearch("counts", "green", <<>>,
                           ShapeInstancesOf(solverInput.shapeCounts),
                           SearchPlacementsByShape, Range(SearchBlocked))
    /\ UNCHANGED <<solverInput, solverCall, solverOutcome, libVars, genVars>>

\* solveForColorWithCountsSimple('blue', ...) for a green solution, up to backtrack(0)
StartSimpleSearch ==
    /\ ~Searching
    /\ HasReq(solverInput.rowReqs, solverInput.colReqs, "blue")
    /\ LET instances == ShapeInstancesOf(solverInput.shapeCounts)
           greenSolutions ==
               solveForColorWithCounts("green", instances, SearchPlacementsByShape,
                   solverInput.gridRows, solverInput.gridCols,
                   solverInput.rowReqs, solverInput.colReqs, SearchBlocked)
       IN  \E g \in 1..Len(greenSolutions) :
             search' = NewSearch("simple", "blue", <<>>,
                           RemainingInstances(instances, greenSolutions[g].usedShapeIndices),
                           SearchPlacementsByShape,
                           Range(SearchBlocked \o greenSolutions[g].cells))
    /\ UNCHANGED <<solverInput, solverCall, solverOutcome, libVars, genVars>>

\* the head of backtrack: countsMatch, the cap, countsExceed
CheckRequirements ==
    /\ Searching
    /\ search.pc = "check"
    /\ LET st == search.st
           matched == countsMatch(st.rowCounts, st.colCounts, solverInput.rowReqs,
                                  solverInput.colReqs, search.color)
           found == IF search.mode = "counts"
                    THEN [placements |-> st.currentPlacements,
                          cells |-> UsedCellList(st.currentPlacements),
                          usedShapeIndices |-> st.usedShapeIndices]
                    ELSE [placements |-> st.currentPlacements,
                          cells |-> UsedCellList(st.currentPlacements)]
           sols1 == IF matched THEN Append(search.solutions, found) ELSE search.solutions
       IN  search' = IF matched /\ SearchCapReached(sols1) THEN Returning(sols1, TRUE)
                     ELSE IF countsExceed(st.rowCounts, st.colCounts, solverInput.rowReqs,
                                          solverInput.colReqs, search.color)
                     THEN Returning(sols1, FALSE)
                     ELSE [search EXCEPT !.solutions = sols1, !.pc = "loop"]
    /\ UNCHANGED <<solverInput, solverCall, solverOutcome, libVars, genVars>>

\* if (overlaps) continue
SkipOverlap ==
    /\ Searching
    /\ search.pc = "loop"
    /\ HasCandidate
    /\ CandidateOverlaps
    /\ search' = [search EXCEPT !.frames = Advanced(search.frames)]
    /\ UNCHANGED <<solverInput, solverCall, solverOutcome, libVars, genVars>>

\* the placement is pushed and backtrack(i + 1) is called
PushPlacement ==
    /\ Searching
    /\ search.pc = "loop"
    /\ HasCandidate
    /\ ~CandidateOverlaps
    /\ search' = [search EXCEPT
                    !.saved = Append(@, search.st),
                    !.st = DoPlacement(search.st, Candidate, TopFrame.i,
                                       search.mode = "counts"),
                    !.frames = Append(@, [i |-> TopFrame.i + 1, j |-> 0]),
                    !.pc = "check"]
    /\ UNCHANGED <<solverInput, solverCall, solverOutcome, libVars, genVars>>

\* the placements of an instance are used up: the next shape instance
NextInstance ==
    /\ Searching
    /\ search.pc = "loop"
    /\ search.mode # "free"
    /\ TopFrame.i < Len(search.instances)
    /\ ~HasCandidate
    /\ search' = [search EXCEPT !.frames[Len(search.frames)] =
                                    [i |-> TopFrame.i + 1, j |-> 0]]
    /\ UNCHANGED <<solverInput, solverCall, solverOutcome, libVars, genVars>>

\* the loop of backtrack ends and the call returns
LoopEnd ==
    /\ Searching
    /\ search.pc = "loop"
    /\ IF search.mode = "free" THEN ~HasCandidate
       ELSE TopFrame.i >= Len(search.instances)
    /\ search' = Returning(search.solutions, FALSE)
    /\ UNCHANGED <<solverInput, solverCall, solverOutcome, libVars, genVars>>

\* if (shouldStop) return true, of the exact-count searches
StopAfterReturn ==
    /\ Searching
    /\ search.pc = "after"
    /\ search.mode # "free"
    /\ search.stop
    /\ search' = Returning(search.solutions, TRUE)
    /\ UNCHANGED <<solverInput, solverCall, solverOutcome, libVars, genVars>>

\* the placement is popped after the call returned; the free-count search
\* then leaves at the cap
PopPlacement ==
    /\ Searching
    /\ search.pc = "after"
    /\ search.mode = "free" \/ ~search.stop
    /\ LET undone == UndoPlacement(search.st, Candidate, TopFrame.i,
                                   search.mode = "counts")
           saved == SubSeq(search.saved, 1, Len(search.saved) - 1)
       IN  search' = IF search.mode = "free" /\ SearchCapReached(search.solutions)
                     THEN [Returning(search.solutions, FALSE) EXCEPT
                              !.st = undone, !.saved = saved]
                     ELSE [search EXCEPT !.st = undone, !.saved = saved,
                                         !.frames = Advanced(search.frames),
                                         !.pc = "loop"]
    /\ UNCHANGED <<solverInput, solverCall, solverOutcome, libVars, genVars>>

SearchNext ==
    \/ StartFreeSearch
    \/ StartFreeBlueSearch
    \/ StartCountsSearch
    \/ StartSimpleSearch
    \/ CheckRequirements
    \/ SkipOverlap
    \/ PushPlacement
    \/ NextInstance
    \/ LoopEnd
    \/ StopAfterReturn
    \/ PopPlacement

SpecSearch == SearchInit /\ [][SearchNext]_vars

----------------------------------------------------------------------------
(* Properties of the solver *)

Called == solverCall # "none"
Result == solverOutcome.result
Succeeded == Called /\ Result.success

\* the error kind a failure message stands for
FailureKind(message) ==
    CASE message = "No requirements specified" -> "NoRequirements"
      [] message = "No valid shape placements possible" -> "NoPlacements"
      [] OTHER -> "NoSolution"

\* cells of the input grid in a given state
CellsInState(state) ==
    {cell \in GridCells(solverInput.gridRows, solverInput.gridCols) :
        solverInput.gridState[cell[1]][cell[2]] = state}

\* some rotation of some supplied shape fits on the grid at some anchor
\* without touching a blocked cell
SomePreValidPlacement ==
    \E k \in 1..Len(solverInput.shapeCounts) :
      \E rot \in Range(SHAPE_LIBRARY[solverInput.shapeCounts[k].id].rotations) :
        \E anchor \in GridCells(solverInput.gridRows, solverInput.gridCols) :
          \A cell \in Range(rot) :
            LET at == <<anchor[1] + cell[1], anchor[2] + cell[2]>>
            IN  /\ at \in GridCells(solverInput.gridRows, solverInput.gridCols)
                /\ solverInput.gridState[at[1]][at[2]] # "blocked"

SomeRequirement(color) ==
    \/ \E r \in 0..(solverInput.gridRows - 1) : solverInput.rowReqs[r][color] > 0
    \/ \E c \in 0..(solverInput.gridCols - 1) : solverInput.colReqs[c][color] > 0

\* number of cells of a cell list in row r / column c
InRow(cells, r) == Cardinality({cell \in Range(cells) : cell[1] = r})
InCol(cells, c) == Cardinality({cell \in Range(cells) : cell[2] = c})
NoRepeats(cells) == Cardinality(Range(cells)) = Len(cells)

\* C1: every solution of a successful solve_counts or solve_exact_counts call
\* passes validateSolution: per color the cells in each row and column equal
\* the requirement, and green and blue share no cell.
C1_SolutionsPassValidate ==
    Succeeded =>
        \A k \in 1..Len(Result.solutions) :
            LET sol == Result.solutions[k]
            IN  /\ validateSolution(sol, solverInput.gridRows, solverInput.gridCols,
                                    solverInput.rowReqs, solverInput.colReqs).valid
                /\ NoRepeats(sol.green) /\ NoRepeats(sol.blue)
                /\ \A r \in 0..(solverInput.gridRows - 1) :
                       /\ InRow(sol.green, r) = solverInput.rowReqs[r].green
                       /\ InRow(sol.blue, r) = solverInput.rowReqs[r].blue
                /\ \A c \in 0..(solverInput.gridCols - 1) :
                       /\ InCol(sol.green, c) = solverInput.colReqs[c].green
                       /\ InCol(sol.blue, c) = solverInput.colReqs[c].blue
                /\ Range(sol.green) \cap Range(sol.blue) = {}

\* an exact-count call that returned a solution with cells of both colors
C1_Witness ==
    /\ solverCall = "solve_exact_counts"
    /\ Succeeded
    /\ \E k \in 1..Len(Result.solutions) :
           Result.solutions[k].green # <<>> /\ Result.solutions[k].blue # <<>>

\* C2: a solver call returns at most 50 whole-puzzle solutions, and each of
\* its per-color searches returns at most 100 solutions.
C2_SolutionCaps ==
    Called =>
        /\ Result.success => Len(Result.solutions) <= 50
        /\ \A k \in 1..Len(solverOutcome.searches) : solverOutcome.searches[k] <= 100

\* a call whose green search stopped at 100 solutions and whose result was cut
\* at 50
C2_Witness ==
    /\ Succeeded
    /\ Len(Result.solutions) = 50
    /\ \E k \in 1..Len(solverOutcome.searches) : solverOutcome.searches[k] = 100

\* C6: in every returned solution each color covers every cell locked for it
\* and no cell locked for the other color.
C6_SolutionsRespectLocks ==
    Succeeded =>
        \A k \in 1..Len(Result.solutions) :
            LET sol == Result.solutions[k]
            IN  /\ CellsInState("locked-green") \subseteq Range(sol.green)
                /\ CellsInState("locked-blue") \subseteq Range(sol.blue)
                /\ Range(sol.green) \cap CellsInState("locked-blue") = {}
                /\ Range(sol.blue) \cap CellsInState("locked-green") = {}

\* the per-color searches of a free-count call that came back empty-handed
GreenSearchEmpty ==
    SomeRequirement("green") /\ solverOutcome.searches # <<>> /\ solverOutcome.searches[1] = 0
BlueSearchSizes ==
    IF SomeRequirement("green") THEN Tail(solverOutcome.searches) ELSE solverOutcome.searches
EveryBlueSearchEmpty ==
    /\ SomeRequirement("blue")
    /\ \A k \in 1..Len(BlueSearchSizes) : BlueSearchSizes[k] = 0

\* C7: solve_counts ends in a non-empty success or in a failure with a
\* message, of the kind NoRequirements when every requirement is zero, else
\* NoPlacements when no pre-valid placement exists, else NoSolution when the
\* green search or every blue search found nothing.
C7_FailurePrecedence ==
    solverCall = "solve_counts" =>
        /\ Result.success => Len(Result.solutions) > 0
        /\ ~Result.success => Result.message # ""
        /\ IF ~SomeRequirement("green") /\ ~SomeRequirement("blue")
           THEN ~Result.success /\ FailureKind(Result.message) = "NoRequirements"
           ELSE IF ~SomePreValidPlacement
           THEN ~Result.success /\ FailureKind(Result.message) = "NoPlacements"
           ELSE IF GreenSearchEmpty \/ EveryBlueSearchEmpty
           THEN ~Result.success /\ FailureKind(Result.message) = "NoSolution"
           ELSE Result.success

\* 3x3, every requirement green:3, only square-4: placements exist, no solution
C7_Witness ==
    /\ solverCall = "solve_counts"
    /\ solverInput.gridRows = 3 /\ solverInput.gridCols = 3
    /\ \A r \in 0..2 : solverInput.rowReqs[r] = [green |-> 3, blue |-> 0]
    /\ \A c \in 0..2 : solverInput.colReqs[c] = [green |-> 3, blue |-> 0]
    /\ EnabledShapesOf(solverInput.shapeCounts) = <<"square-4">>
    /\ SomePreValidPlacement
    /\ ~Result.success
    /\ FailureKind(Result.message) = "NoSolution"

\* C8: solve_exact_counts with a nonzero requirement and no pre-valid
\* placement of any supplied shape fails with the kind NoPlacement, not with
\* the kind it uses when placements exist but none matches.
C8_ExactCountsNoPlacementKind ==
    (/\ solverCall = "solve_exact_counts"
     /\ SomeRequirement("green") \/ SomeRequirement("blue")
     /\ ~SomePreValidPlacement)
        => (~Result.success /\ FailureKind(Result.message) = "NoPlacements")

\* placements of a shape id in a whole-puzzle solution, both colors together
PlacementsOfId(sol, id) ==
    Cardinality({n \in 1..Len(sol.greenPlacements) : sol.greenPlacements[n].shapeId = id})
    + Cardinality({n \in 1..Len(sol.bluePlacements) : sol.bluePlacements[n].shapeId = id})

\* C15: in every solution of a successful solve_exact_counts call the green
\* and the blue placements of a shape id are together at most shapeCounts[id]:
\* no supplied instance is used twice.
C15_InstancesUsedAtMostOnce ==
    (solverCall = "solve_exact_counts" /\ Result.success) =>
        \A k \in 1..Len(Result.solutions) :
            \A j \in 1..Len(solverInput.shapeCounts) :
                PlacementsOfId(Result.solutions[k], solverInput.shapeCounts[j].id)
                    <= solverInput.shapeCounts[j].count

\* a solution in which green and blue each place one of the two line-3
C15_Witness ==
    /\ solverCall = "solve_exact_counts"
    /\ Result.success
    /\ \E k \in 1..Len(Result.solutions), j \in 1..Len(solverInput.shapeCounts) :
           /\ solverInput.shapeCounts[j].count = 2
           /\ Len(Result.solutions[k].greenPlacements) = 1
           /\ Len(Result.solutions[k].bluePlacements) = 1
           /\ PlacementsOfId(Result.solutions[k], solverInput.shapeCounts[j].id) = 2

\* the green search of the call that was made, as the solver runs it
GreenSearch ==
    LET blockedCells == BlockedCellsOf(solverInput.gridRows, solverInput.gridCols,
                                       solverInput.gridState)
        ids == EnabledShapesOf(solverInput.shapeCounts)
    IN  IF solverCall = "solve_exact_counts"
        THEN solveForColorWithCounts("green", ShapeInstancesOf(solverInput.shapeCounts),
                 [id \in Range(ids) |->
                    generatePlacementsForShape(id, solverInput.gridRows,
                                               solverInput.gridCols, Range(blockedCells))],
                 solverInput.gridRows, solverInput.gridCols,
                 solverInput.rowReqs, solverInput.colReqs, blockedCells)
        ELSE solveForColor("green",
                 generateAllPlacements(solverInput.gridRows, solverInput.gridCols,
                                       blockedCells, ids),
                 solverInput.gridRows, solverInput.gridCols,
                 solverInput.rowReqs, solverInput.colReqs, blockedCells)

\* the placements of a per-color solution without their order and instances
PlacementSetOf(sol) ==
    {[shapeId |-> sol.placements[k].shapeId,
      rotationIndex |-> sol.placements[k].rotationIndex,
      cells |-> sol.placements[k].cells] : k \in 1..Len(sol.placements)}

NoPermutedDuplicates(sols) ==
    \A a \in 1..Len(sols), b \in 1..Len(sols) :
        a < b => PlacementSetOf(sols[a]) # PlacementSetOf(sols[b])

\* C19: in both solver modes no per-color search returns two solutions made
\* of the same placements (shape id, rotation and cells) that differ only in
\* the order or in the instance index of the placements, also when
\* shapeCounts holds several instances of one shape id.
C19_NoPermutedDuplicateSolutions ==
    Called => NoPermutedDuplicates(GreenSearch)

\* the sets of pairwise non-overlapping placements among ps[i..], none on `used`
RECURSIVE DisjointSets(_, _, _)
DisjointSets(ps, i, used) ==
    IF i > Len(ps) THEN {{}}
    ELSE DisjointSets(ps, i + 1, used)
         \cup (IF ps[i].cellSet \cap used = {}
               THEN {s \cup {[shapeId |-> ps[i].shapeId,
                              rotationIndex |-> ps[i].rotationIndex,
                              cells |-> ps[i].cells]} :
                       s \in DisjointSets(ps, i + 1, used \cup ps[i].cellSet)}
               ELSE {})

CellsOfSet(s) == UNION {Range(p.cells) : p \in s}

\* the sets a complete search for a color has to return: pre-valid placements
\* off the forbidden cells, pairwise non-overlapping, with the color's counts
ValidSetsFor(color, forbiddenCells) ==
    LET blockedCells == BlockedCellsOf(solverInput.gridRows, solverInput.gridCols,
                                       solverInput.gridState)
        all == generateAllPlacements(solverInput.gridRows, solverInput.gridCols,
                                     blockedCells, EnabledShapesOf(solverInput.shapeCounts))
        Allowed(p) == p.cellSet \cap Range(forbiddenCells) = {}
        Meets(s) ==
            LET cells == CellsOfSet(s)
            IN  /\ \A r \in 0..(solverInput.gridRows - 1) :
                      Cardinality({cell \in cells : cell[1] = r})
                        = solverInput.rowReqs[r][color]
                /\ \A c \in 0..(solverInput.gridCols - 1) :
                      Cardinality({cell \in cells : cell[2] = c})
                        = solverInput.colReqs[c][color]
    IN  {s \in DisjointSets(SelectSeq(all, Allowed), 1, {}) : Meets(s)}

\* the blue search runSolver makes for a green solution
BlueSearchFor(greenSol) ==
    LET blockedCells == BlockedCellsOf(solverInput.gridRows, solverInput.gridCols,
                                       solverInput.gridState)
    IN  solveForColor("blue",
            generateAllPlacements(solverInput.gridRows, solverInput.gridCols, blockedCells,
                                  EnabledShapesOf(solverInput.shapeCounts)),
            solverInput.gridRows, solverInput.gridCols,
            solverInput.rowReqs, solverInput.colReqs, blockedCells \o greenSol.cells)

CompleteBelowCap(sols, color, forbiddenCells) ==
    Len(sols) < 100 =>
        /\ {PlacementSetOf(sols[k]) : k \in 1..Len(sols)} = ValidSetsFor(color, forbiddenCells)
        /\ NoPermutedDuplicates(sols)

\* C26: whenever solveForColor returns fewer than 100 solutions, they are
\* exactly the sets of pairwise non-overlapping pre-valid placements that
\* avoid the forbidden cells and whose row and column counts equal the
\* color's requirements, each returned once.
C26_FreeSearchCompleteBelowCap ==
    (Called /\ solverCall = "solve_counts") =>
        LET blockedCells == BlockedCellsOf(solverInput.gridRows, solverInput.gridCols,
                                           solverInput.gridState)
            greenSolutions == GreenSearch
        IN  /\ CompleteBelowCap(greenSolutions, "green", blockedCells)
            /\ \A g \in 1..Len(greenSolutions) :
                   CompleteBelowCap(BlueSearchFor(greenSolutions[g]), "blue",
                                    blockedCells \o greenSolutions[g].cells)

\* a green search below the cap with several solutions of several placements,
\* and a blue search that has to avoid the green cells
C26_Witness ==
    /\ Called /\ solverCall = "solve_counts"
    /\ Len(GreenSearch) \in 2..99
    /\ \E k \in 1..Len(GreenSearch) : Len(GreenSearch[k].placements) >= 2
    /\ \E g \in 1..Len(GreenSearch) :
          /\ GreenSearch[g].cells # <<>>
          /\ Len(BlueSearchFor(GreenSearch[g])) \in 1..99

----------------------------------------------------------------------------
(* Properties of the shape library *)

\* the cell set of a cell list
CellsOf(cells) == Range(cells)

\* min row = min col = 0
IsNormalized(cells) ==
    /\ MinOf({cells[i][1] : i \in 1..Len(cells)}) = 0
    /\ MinOf({cells[i][2] : i \in 1..Len(cells)}) = 0

\* the 90-degree clockwise image of a cell set, re-anchored at (0,0)
RotatedImage(S) ==
    LET raw == {<<cell[2], -cell[1]>> : cell \in S}
        r0  == MinOf({cell[1] : cell \in raw})
        c0  == MinOf({cell[2] : cell \in raw})
    IN  {<<cell[1] - r0, cell[2] - c0>> : cell \in raw}

\* the base shape and its images under one, two and three quarter turns
RotationImages(cells) ==
    {CellsOf(cells), RotatedImage(CellsOf(cells)),
     RotatedImage(RotatedImage(CellsOf(cells))),
     RotatedImage(RotatedImage(RotatedImage(CellsOf(cells))))}

ExpectedRotationCount(id) ==
    CASE id = "line-3"   -> 2
      [] id = "square-4" -> 1
      [] id = "L-4"      -> 4
      [] id = "cross-5"  -> 1

\* C9: every stored cell list of every library entry, the base shape at
\* rotation index 0 included, has minimum row 0 and minimum column 0.
C9_EveryStoredCellListNormalized ==
    libPc # "start" =>
        \A id \in DOMAIN library :
            /\ IsNormalized(library[id].baseShape)
            /\ \A k \in 1..Len(library[id].rotations) :
                   IsNormalized(library[id].rotations[k])

\* C10: the rotations of an entry are pairwise different as cell sets, they
\* are exactly the distinct quarter-turn images of the base shape, each has
\* cellCount cells, and the built-in line-3, square-4, L-4 and cross-5 have
\* 2, 1, 4 and 1 rotations.
C10_RotationsAreTheDistinctImages ==
    libPc # "start" =>
        \A id \in DOMAIN library :
            LET e == library[id]
                n == Len(e.rotations)
            IN  /\ \A j, k \in 1..n :
                       j # k => CellsOf(e.rotations[j]) # CellsOf(e.rotations[k])
                /\ {CellsOf(e.rotations[k]) : k \in 1..n} = RotationImages(e.baseShape)
                /\ \A k \in 1..n : Len(e.rotations[k]) = e.cellCount
                /\ (~e.isCustom /\ id \in {"line-3", "square-4", "L-4", "cross-5"})
                       => n = ExpectedRotationCount(id)

\* a built library holding line-3 with its two rotations and a custom shape
\* with four
C10_Witness ==
    /\ libPc = "built"
    /\ "custom-1" \in DOMAIN library
    /\ Len(library["custom-1"].rotations) = 4
    /\ Len(library["line-3"].rotations) = 2
    /\ Len(library["L-4"].rotations) = 4

\* C11: a stored definition whose identifier is already a key of the built-in
\* definitions is rejected by the build: the entry the library holds for that
\* identifier is still the built-in one.
C11_DuplicateIdKeepsExistingEntry ==
    libPc # "start" =>
        \A k \in 1..Len(customShapes) :
            customShapes[k].id \in BuiltinIds =>
                library[customShapes[k].id]
                    = LibraryEntry(SHAPE_DEFINITIONS[customShapes[k].id], FALSE)

----------------------------------------------------------------------------
(* Generator: src/unnamed/part_000 *)

\* `locked-${color}`
LockedState(color) ==
    CASE color = "green" -> "locked-green"
      [] color = "blue" -> "locked-blue"

SetCell(grid, cell, state) == [grid EXCEPT ![cell[1]][cell[2]] = state]

RECURSIVE SetCells(_, _, _)
SetCells(grid, cells, state) ==
    IF cells = <<>> THEN grid
    ELSE SetCells(SetCell(grid, Head(cells), state), Tail(cells), state)

\* the cells of a grid in state 'empty'
EmptyCellsOf(grid) ==
    {cell \in GridCells(Cardinality(DOMAIN grid), Cardinality(DOMAIN grid[0])) :
        grid[cell[1]][cell[2]] = "empty"}

\* the sequences of n different elements of S
RECURSIVE InjectiveSeqs(_, _)
InjectiveSeqs(S, n) ==
    IF n = 0 THEN {<<>>}
    ELSE UNION {{Append(t, x) : x \in S \ Range(t)} : t \in InjectiveSeqs(S, n - 1)}

\* Object.keys of an object filled in the order of this.config.colors
KeysOf(config, object) ==
    LET Present(color) == color \in DOMAIN object
    IN  SelectSeq(config.colors, Present)

\* this.config = {...}: the defaults of generate
ConfigOf(request) ==
    [gridRows  |-> IF "gridRows" \in DOMAIN request THEN request.gridRows ELSE 5,
     gridCols  |-> IF "gridCols" \in DOMAIN request THEN request.gridCols ELSE 5,
     colors    |-> IF "colors" \in DOMAIN request THEN request.colors
                   ELSE <<"green", "blue">>,
     blockers  |-> IF "blockers" \in DOMAIN request THEN request.blockers # FALSE ELSE TRUE,
     locks     |-> IF "locks" \in DOMAIN request THEN request.locks ELSE FALSE,
     shapePool |-> IF "shapePool" \in DOMAIN request THEN request.shapePool
                   ELSE ShapeOrder]

\* Phase 1 handing the reserved cells to the shapes as well
allocateBudget_NoReserve(config) ==
    LET totalCells == config.gridRows * config.gridCols
        colorCount == Len(config.colors)
        minReserve == (2 * (config.gridRows + config.gridCols)) \div 3
        reserveNeeded == IF config.blockers \/ config.locks THEN minReserve ELSE 0
        budgetPerColor == totalCells \div colorCount
    IN  [totalCells |-> totalCells, colorCount |-> colorCount,
         reserveNeeded |-> reserveNeeded, availableForShapes |-> totalCells,
         budgetPerColor |-> budgetPerColor,
         colorBudgets |-> [color \in Range(config.colors) |-> budgetPerColor]]

\* Phase 1; Math.floor(x / 1.5) is the floor of 2x/3
allocateBudget(config) ==
    LET totalCells == config.gridRows * config.gridCols
        colorCount == Len(config.colors)
        minReserve == (2 * (config.gridRows + config.gridCols)) \div 3
        reserveNeeded == IF config.blockers \/ config.locks THEN minReserve ELSE 0
        availableForShapes == totalCells - reserveNeeded
        budgetPerColor == availableForShapes \div colorCount
    IN  [totalCells |-> totalCells, colorCount |-> colorCount,
         reserveNeeded |-> reserveNeeded, availableForShapes |-> availableForShapes,
         budgetPerColor |-> budgetPerColor,
         colorBudgets |-> [color \in Range(config.colors) |-> budgetPerColor]]

\* every shape of the pool, whatever its size
ValidShapes_All(config, remaining) == config.shapePool

\* the shapes of the pool that fit in the remaining budget
ValidShapes(config, remaining) ==
    LET Fits(shapeId) == /\ shapeId \in DOMAIN SHAPE_LIBRARY
                         /\ SHAPE_LIBRARY[shapeId].cellCount <= remaining
    IN  SelectSeq(config.shapePool, Fits)

\* while (remaining > 0) of one color: every list of shapes the random picks
\* of shape and rotation can build, with what is left of the budget
RECURSIVE ShapePicks(_, _, _)
ShapePicks(config, shapes, remaining) ==
    LET validShapes == ValidShapes(config, remaining)
        Pick(shapeId, rotationIndex) ==
            [shapeId |-> shapeId, rotationIndex |-> rotationIndex,
             cells |-> SHAPE_LIBRARY[shapeId].rotations[rotationIndex + 1],
             cellCount |-> SHAPE_LIBRARY[shapeId].cellCount]
    IN  IF remaining <= 0 \/ validShapes = <<>>
        THEN {[shapes |-> shapes, remaining |-> remaining]}
        ELSE UNION {
               UNION {ShapePicks(config, Append(shapes, Pick(shapeId, rotationIndex)),
                                 remaining - SHAPE_LIBRARY[shapeId].cellCount) :
                        rotationIndex \in 0..(Len(SHAPE_LIBRARY[shapeId].rotations) - 1)} :
               shapeId \in Range(validShapes)}

\* for (const color of this.config.colors) of _selectShapes, from the i-th color
RECURSIVE SelectLoop(_, _, _, _)
SelectLoop(config, budget, i, selection) ==
    IF i > Len(config.colors) THEN {selection}
    ELSE LET color == config.colors[i]
             Selected(pick) ==
                 [success |-> TRUE,
                  colorShapes |-> PutEntry(selection.colorShapes, color, pick.shapes),
                  colorRemainders |-> PutEntry(selection.colorRemainders, color,
                                               pick.remaining),
                  totalRemainder |-> selection.totalRemainder + pick.remaining]
         IN  UNION {IF pick.shapes = <<>>
                    THEN {[selection EXCEPT !.success = FALSE]}
                    ELSE SelectLoop(config, budget, i + 1, Selected(pick)) :
                    pick \in ShapePicks(config, <<>>, budget.colorBudgets[color])}

\* Phase 2: the selections the random picks can produce
selectShapes(config, budget) ==
    SelectLoop(config, budget, 1,
               [success |-> TRUE, colorShapes |-> <<>>, colorRemainders |-> <<>>,
                totalRemainder |-> 0])

\* Phase 3
calculateBlockerLockBudget(config, budget, shapeSelection) ==
    LET totalRemainder == shapeSelection.totalRemainder + budget.reserveNeeded
        blockerBudget == IF config.blockers /\ config.locks THEN totalRemainder \div 2
                         ELSE IF config.blockers THEN totalRemainder
                         ELSE 0
        lockBudget == IF config.blockers /\ config.locks THEN totalRemainder - blockerBudget
                      ELSE IF config.blockers THEN 0
                      ELSE IF config.locks THEN totalRemainder
                      ELSE 0
    IN  [blockerBudget |-> blockerBudget, lockBudget |-> lockBudget,
         totalRemainder |-> totalRemainder]

\* while (remainder > 0) of _distributeLocks: one more lock for a random color
RECURSIVE RemainderLoop(_, _, _)
RemainderLoop(config, distribution, remainder) ==
    IF remainder <= 0 THEN {distribution}
    ELSE UNION {RemainderLoop(config,
                              [distribution EXCEPT ![config.colors[k]] = @ + 1],
                              remainder - 1) :
                k \in 1..Len(config.colors)}

\* Phase 4 without the while loop that hands out the remainder
distributeLocks_FloorOnly(config, blockerLockBudget) ==
    {[color \in Range(config.colors) |->
        blockerLockBudget.lockBudget \div Len(config.colors)]}

\* Phase 4: the distributions the random picks can produce
distributeLocks(config, blockerLockBudget) ==
    LET colorCount == Len(config.colors)
        locksPerColor == blockerLockBudget.lockBudget \div colorCount
    IN  IF blockerLockBudget.lockBudget = 0
        THEN {[color \in Range(config.colors) |-> 0]}
        ELSE RemainderLoop(config, [color \in Range(config.colors) |-> locksPerColor],
                           blockerLockBudget.lockBudget % colorCount)

\* for (let attempt = 0; attempt < 5; attempt++) of _placeAndValidate
InnerAttempts == 5
\* while (placed < count && attempts < count * 10) of the chaotic strategy
ChaoticAttemptFactor == 10

\* the four mirror images of (r, c) that are empty when the draw is made
MirrorPositions(grid, r, c) ==
    LET rows == Cardinality(DOMAIN grid)
        cols == Cardinality(DOMAIN grid[0])
        IsEmpty(cell) == grid[cell[1]][cell[2]] = "empty"
    IN  SelectSeq(<< <<r, c>>, <<r, cols - 1 - c>>, <<rows - 1 - r, c>>,
                     <<rows - 1 - r, cols - 1 - c>> >>, IsEmpty)

\* if (grid[pr][pc] === 'empty') inside the loop over the mirror positions
MirrorStillEmpty(grid, cell) == grid[cell[1]][cell[2]] = "empty"

\* for (const [pr, pc] of positions) of one draw; st = [grid, cells]
RECURSIVE MirrorPlace(_, _, _, _)
MirrorPlace(st, positions, i, count) ==
    IF i > Len(positions) \/ Len(st.cells) >= count THEN st
    ELSE IF MirrorStillEmpty(st.grid, positions[i])
    THEN MirrorPlace([grid |-> SetCell(st.grid, positions[i], "blocked"),
                      cells |-> Append(st.cells, positions[i])],
                     positions, i + 1, count)
    ELSE MirrorPlace(st, positions, i + 1, count)

\* while (placed < count) of the symmetrical blockers: the results of the
\* runs that leave the loop. A draw that places nothing leaves the loop state
\* as it was, so only the draws that place a cell are followed; where no draw
\* places a cell the loop never ends and contributes no result.
RECURSIVE SymmetricalBlockers(_, _)
SymmetricalBlockers(st, count) ==
    IF Len(st.cells) >= count THEN {st}
    ELSE LET rows == Cardinality(DOMAIN st.grid)
             cols == Cardinality(DOMAIN st.grid[0])
             draws == (0..(((rows + 1) \div 2) - 1)) \X (0..(((cols + 1) \div 2) - 1))
             next == {MirrorPlace(st, MirrorPositions(st.grid, d[1], d[2]), 1, count) :
                        d \in draws} \ {st}
         IN  UNION {SymmetricalBlockers(n, count) : n \in next}

\* the capped loop of the chaotic strategy (blockers and locks alike): the
\* cell lists it can end with. A run ends with `count` cells, or with fewer
\* after the draws that did not place were all spent on occupied cells, which
\* needs an occupied cell: one placed before, or one the grid came with.
ChaoticCells(grid, count) ==
    LET empties == EmptyCellsOf(grid)
        cells == GridCells(Cardinality(DOMAIN grid), Cardinality(DOMAIN grid[0]))
        most == IF count <= Cardinality(empties) THEN count ELSE Cardinality(empties)
        CanEndWith(n) ==
            \/ n >= count
            \/ /\ count * ChaoticAttemptFactor > n
               /\ (n >= 1 \/ empties # cells)
    IN  UNION {InjectiveSeqs(empties, n) : n \in {m \in 0..most : CanEndWith(m)}}

\* the uncapped loop of the symmetrical locks: `count` different empty cells;
\* with fewer empty cells than `count` the loop never ends
SymmetricalLockCells(grid, count) == InjectiveSeqs(EmptyCellsOf(grid), count)

\* _placeBlockers: every [grid, cells] the call can return with
placeBlockers(grid, count, strategy) ==
    IF strategy = "symmetrical"
    THEN SymmetricalBlockers([grid |-> grid, cells |-> <<>>], count)
    ELSE {[grid |-> SetCells(grid, cells, "blocked"), cells |-> cells] :
            cells \in ChaoticCells(grid, count)}

\* for (const color of Object.keys(distribution)) of _placeLocks; st = [grid, locks]
RECURSIVE LockLoop(_, _, _, _, _)
LockLoop(st, keys, i, distribution, strategy) ==
    IF i > Len(keys) THEN {st}
    ELSE LET color == keys[i]
             count == distribution[color]
             lists == IF strategy = "symmetrical"
                      THEN SymmetricalLockCells(st.grid, count)
                      ELSE ChaoticCells(st.grid, count)
         IN  UNION {LockLoop([grid |-> SetCells(st.grid, cells, LockedState(color)),
                              locks |-> PutEntry(st.locks, color, cells)],
                             keys, i + 1, distribution, strategy) :
                    cells \in lists}

\* _placeLocks: every [grid, locks] the call can return with
placeLocks(config, grid, distribution, strategy) ==
    LockLoop([grid |-> grid, locks |-> <<>>], KeysOf(config, distribution), 1,
             distribution, strategy)

\* a position is taken whatever its cells hold
PositionIsValid_AnyCell(grid, cells) == TRUE

\* cells.every(([cr, cc]) => grid[cr][cc] === 'empty')
PositionIsValid(grid, cells) ==
    \A i \in 1..Len(cells) : grid[cells[i][1]][cells[i][2]] = "empty"

\* _findShapePlacement: the placements the random pick can return; none = null
findShapePlacement(grid, shape, color) ==
    LET rows == Cardinality(DOMAIN grid)
        cols == Cardinality(DOMAIN grid[0])
        bounds == getShapeBounds(shape.cells)
        CellsAt(r, c) == [i \in 1..Len(shape.cells) |->
                            <<r + shape.cells[i][1], c + shape.cells[i][2]>>]
    IN  {[shapeId |-> shape.shapeId, rotationIndex |-> shape.rotationIndex,
          position |-> <<r, c>>, cells |-> CellsAt(r, c), color |-> color] :
            <<r, c>> \in {a \in (0..(rows - bounds.height)) \X (0..(cols - bounds.width)) :
                            PositionIsValid(grid, CellsAt(a[1], a[2]))}}

NoPlacement == [success |-> FALSE, grid |-> <<>>, shapes |-> <<>>, solution |-> <<>>]

\* the two loops of _findValidPlacement, at the j-th shape of the i-th color;
\* acc = [grid (workingGrid), shapes (placedShapes), placements]
RECURSIVE PlaceShapes(_, _, _, _, _)
PlaceShapes(colorShapes, keys, i, j, acc) ==
    IF i > Len(keys)
    THEN {[success |-> TRUE, grid |-> acc.grid, shapes |-> acc.shapes,
           solution |-> [color \in DOMAIN acc.shapes |->
                           Flatten([k \in 1..Len(acc.shapes[color]) |->
                                      acc.shapes[color][k].cells])]]}
    ELSE LET color == keys[i]
             shapes == colorShapes[color]
         IN  IF j > Len(shapes)
             THEN PlaceShapes(colorShapes, keys, i + 1, 1,
                              [grid |-> acc.grid,
                               shapes |-> PutEntry(acc.shapes, color, acc.placements),
                               placements |-> <<>>])
             ELSE LET options == findShapePlacement(acc.grid, shapes[j], color)
                  IN  IF options = {} THEN {NoPlacement}
                      ELSE UNION {PlaceShapes(colorShapes, keys, i, j + 1,
                                    [grid |-> SetCells(acc.grid, p.cells, color),
                                     shapes |-> acc.shapes,
                                     placements |-> Append(acc.placements, p)]) :
                                  p \in options}

\* _findValidPlacement: every result the random picks can lead to
findValidPlacement(config, grid, colorShapes) ==
    PlaceShapes(colorShapes, KeysOf(config, colorShapes), 1, 1,
                [grid |-> grid, shapes |-> <<>>, placements |-> <<>>])

\* _findEmptyCells: the shuffled list of empty cells, cut after the `used`
\* entries its caller reads
findEmptyCells(grid, used) ==
    LET empties == EmptyCellsOf(grid)
    IN  InjectiveSeqs(empties, IF used <= Cardinality(empties) THEN used
                               ELSE Cardinality(empties))

\* emptyCells.slice(start)
SliceFrom(cells, start) ==
    IF start >= Len(cells) THEN <<>> ELSE SubSeq(cells, start + 1, Len(cells))

\* emptyCells.slice(0, count)
placeInEmptyCells(emptyCells, count) ==
    IF count >= Len(emptyCells) THEN emptyCells ELSE SubSeq(emptyCells, 1, count)

\* the locks are taken from the whole shuffled list, the blockers' slots included
RemainingCells_NoSlice(emptyCells, blockerBudget) == emptyCells

\* const remainingCells = emptyCells.slice(blockerLockBudget.blockerBudget)
RemainingCells(emptyCells, blockerBudget) == SliceFrom(emptyCells, blockerBudget)

\* _placeLocksinEmptyCells, from the i-th color; index counts the cells used
RECURSIVE LocksInEmptyLoop(_, _, _, _, _, _)
LocksInEmptyLoop(emptyCells, keys, i, distribution, index, locks) ==
    IF i > Len(keys) THEN locks
    ELSE LET count == distribution[keys[i]]
             left == Len(emptyCells) - index
             taken == IF count <= left THEN count ELSE left
             cells == IF taken <= 0 THEN <<>>
                      ELSE SubSeq(emptyCells, index + 1, index + taken)
         IN  LocksInEmptyLoop(emptyCells, keys, i + 1, distribution, index + Len(cells),
                              PutEntry(locks, keys[i], cells))

placeLocksinEmptyCells(config, emptyCells, distribution) ==
    LocksInEmptyLoop(emptyCells, KeysOf(config, distribution), 1, distribution, 0, <<>>)

\* for (const color of Object.keys(locks)) grid[r][c] = `locked-${color}`
RECURSIVE WriteLocks(_, _, _, _)
WriteLocks(grid, keys, i, locks) ==
    IF i > Len(keys) THEN grid
    ELSE WriteLocks(SetCells(grid, locks[keys[i]], LockedState(keys[i])), keys, i + 1, locks)

\* Phase 7 counting only cell === color
calculateDisplayRequirements_FilledOnly(config, grid) ==
    LET rows == Cardinality(DOMAIN grid)
        cols == Cardinality(DOMAIN grid[0])
    IN  [rows |-> [r \in 0..(rows - 1) |-> [color \in Range(config.colors) |->
                     Cardinality({c \in 0..(cols - 1) : grid[r][c] = color})]],
         cols |-> [c \in 0..(cols - 1) |-> [color \in Range(config.colors) |->
                     Cardinality({r \in 0..(rows - 1) : grid[r][c] = color})]]]

\* Phase 7
calculateDisplayRequirements(config, grid) ==
    LET rows == Cardinality(DOMAIN grid)
        cols == Cardinality(DOMAIN grid[0])
        Counts(cell, color) == cell = color \/ cell = LockedState(color)
    IN  [rows |-> [r \in 0..(rows - 1) |-> [color \in Range(config.colors) |->
                     Cardinality({c \in 0..(cols - 1) : Counts(grid[r][c], color)})]],
         cols |-> [c \in 0..(cols - 1) |-> [color \in Range(config.colors) |->
                     Cardinality({r \in 0..(rows - 1) : Counts(grid[r][c], color)})]]]

\* the puzzle _attemptGeneration returns for a successful placementResult
PuzzleOf(config, placementResult) ==
    [grid |-> placementResult.grid,
     shapes |-> placementResult.shapes,
     blockers |-> placementResult.blockers,
     locks |-> placementResult.locks,
     requirements |-> calculateDisplayRequirements(config, placementResult.grid),
     solution |-> placementResult.solution]

PlacementFailed ==
    [success |-> FALSE, grid |-> <<>>, shapes |-> <<>>, blockers |-> <<>>,
     locks |-> <<>>, solution |-> <<>>]

\* one pass of the attempt loop of _placeAndValidate: blockers, locks and
\* shapes on a fresh grid; every result the random draws can lead to
InnerAttemptResults(config, plan) ==
    LET grid == EmptyGrid(config.gridRows, config.gridCols)
        Found(b, l) ==
            {IF f.success
             THEN [success |-> TRUE, grid |-> f.grid, shapes |-> f.shapes,
                   blockers |-> b.cells, locks |-> l.locks, solution |-> f.solution]
             ELSE PlacementFailed :
             f \in findValidPlacement(config, l.grid, plan.shapeSelection.colorShapes)}
        Locked(b) ==
            UNION {Found(b, l) :
                   l \in placeLocks(config, b.grid, plan.lockDistribution, plan.strategy)}
    IN  UNION {Locked(b) :
               b \in placeBlockers(grid, plan.blockerLockBudget.blockerBudget, plan.strategy)}

\* sum of a distribution
RECURSIVE SumOver(_, _)
SumOver(f, keys) == IF keys = {} THEN 0
                    ELSE LET k == CHOOSE x \in keys : TRUE
                         IN  f[k] + SumOver(f, keys \ {k})

\* the fallback of _placeAndValidate: shapes on an empty grid, then blockers
\* and locks on shuffled empty cells, written back into the grid
FallbackResults(config, plan) ==
    LET grid == EmptyGrid(config.gridRows, config.gridCols)
        blockerBudget == plan.blockerLockBudget.blockerBudget
        used == blockerBudget + SumOver(plan.lockDistribution, DOMAIN plan.lockDistribution)
        Filled(f, emptyCells) ==
            LET blockers == placeInEmptyCells(emptyCells, blockerBudget)
                remainingCells == RemainingCells(emptyCells, blockerBudget)
                locks == placeLocksinEmptyCells(config, remainingCells, plan.lockDistribution)
            IN  [success |-> TRUE,
                 grid |-> WriteLocks(SetCells(f.grid, blockers, "blocked"),
                                     KeysOf(config, locks), 1, locks),
                 shapes |-> f.shapes, blockers |-> blockers, locks |-> locks,
                 solution |-> f.solution]
    IN  UNION {IF f.success
               THEN {Filled(f, emptyCells) : emptyCells \in findEmptyCells(f.grid, used)}
               ELSE {PlacementFailed} :
               f \in findValidPlacement(config, grid, plan.shapeSelection.colorShapes)}

----------------------------------------------------------------------------
(* generate as a state machine: Init draws the config *)

GenRequest(gridRows, gridCols, colors, shapePool) ==
    [gridRows |-> gridRows, gridCols |-> gridCols, colors |-> colors,
     shapePool |-> shapePool]

WithFlags(request, blockers, locks) ==
    [gridRows |-> request.gridRows, gridCols |-> request.gridCols,
     colors |-> request.colors, shapePool |-> request.shapePool,
     blockers |-> blockers, locks |-> locks]

\* the configs generate is called with; a request without `blockers` and
\* `locks` gets the defaults
GenRequests ==
    {WithFlags(GenRequest(2, 2, <<"green">>, <<"square-4">>), FALSE, FALSE)}
    \cup {WithFlags(GenRequest(2, 3, <<"green">>, <<"line-3", "L-3">>), blockers, locks) :
            blockers \in BOOLEAN, locks \in BOOLEAN}
    \cup {GenRequest(2, 3, <<"green">>, <<"line-3">>)}
    \cup {WithFlags(GenRequest(2, 3, <<"green", "blue">>, <<"line-3", "L-3">>), FALSE, FALSE)}
    \cup {WithFlags(GenRequest(3, 3, <<"green", "blue">>, <<"square-4", "line-3">>),
                    FALSE, FALSE)}
    \cup {WithFlags(GenRequest(2, 5, <<"green", "blue">>, <<"line-3">>), TRUE, TRUE)}
    \cup {WithFlags(GenRequest(2, 2, <<"green", "blue">>, <<"square-4">>), FALSE, FALSE)}
    \cup {GenRequest(1, 1, <<"green">>, <<"line-3">>)}

GenInit ==
    /\ genRequest \in GenRequests
    /\ genConfig = <<>>
    /\ genPc = "start"
    /\ genAttempts = 0
    /\ genPlan = <<>>
    /\ genInner = 0
    /\ genPath = "none"
    /\ genPuzzle = <<>>
    /\ genElapsed = "within"
    /\ genLoop = <<>>
    /\ LibIdle
    /\ SolverIdle

\* generate(config) up to its loop
Generate ==
    /\ genPc = "start"
    /\ genConfig' = ConfigOf(genRequest)
    /\ genPc' = "loop"
    /\ UNCHANGED <<genRequest, genAttempts, genPlan, genInner, genPath, genPuzzle,
                   genElapsed, genLoop, libVars, solverVars>>

\* the wall clock reaches startTime + maxDuration. The clock is read at the
\* loop condition only, so time that runs out during an attempt is seen there.
TimeRunsOut ==
    /\ genPc = "loop"
    /\ genElapsed = "within"
    /\ genElapsed' = "over"
    /\ UNCHANGED <<genRequest, genConfig, genPc, genAttempts, genPlan, genInner, genPath,
                   genPuzzle, genLoop, libVars, solverVars>>

\* the loop starts an attempt whatever the clock says
StartAttempt_IgnoresClock ==
    /\ genPc = "loop"
    /\ genAttempts < MaxGenAttempts
    /\ genAttempts' = genAttempts + 1
    /\ genPc' = "attempt"
    /\ UNCHANGED <<genRequest, genConfig, genPlan, genInner, genPath, genPuzzle,
                   genElapsed, genLoop, libVars, solverVars>>

\* while (Date.now() - startTime < maxDuration): time is left, attempts++
StartAttempt ==
    /\ genPc = "loop"
    /\ genElapsed = "within"
    /\ genAttempts < MaxGenAttempts
    /\ genAttempts' = genAttempts + 1
    /\ genPc' = "attempt"
    /\ UNCHANGED <<genRequest, genConfig, genPlan, genInner, genPath, genPuzzle,
                   genElapsed, genLoop, libVars, solverVars>>

\* the loop condition read after maxDuration: generate returns null
DeadlinePassed ==
    /\ genPc = "loop"
    /\ genElapsed = "over"
    /\ genPc' = "returned-null"
    /\ UNCHANGED <<genRequest, genConfig, genAttempts, genPlan, genInner, genPath,
                   genPuzzle, genElapsed, genLoop, libVars, solverVars>>

\* _attemptGeneration, Phases 1 to 5; a failed selection ends the attempt
PlanAttempt ==
    /\ genPc = "attempt"
    /\ LET budget == allocateBudget(genConfig)
       IN  \E shapeSelection \in selectShapes(genConfig, budget) :
             IF ~shapeSelection.success
             THEN /\ genPlan' = [budget |-> budget, shapeSelection |-> shapeSelection,
                                 blockerLockBudget |-> <<>>, lockDistribution |-> <<>>,
                                 strategy |-> "none"]
                  /\ genPc' = "loop"
             ELSE LET blockerLockBudget ==
                          calculateBlockerLockBudget(genConfig, budget, shapeSelection)
                  IN  \E lockDistribution \in distributeLocks(genConfig, blockerLockBudget),
                         strategy \in {"symmetrical", "chaotic"} :
                        /\ genPlan' = [budget |-> budget,
                                       shapeSelection |-> shapeSelection,
                                       blockerLockBudget |-> blockerLockBudget,
                                       lockDistribution |-> lockDistribution,
                                       strategy |-> strategy]
                        /\ genPc' = "place"
    /\ genInner' = 0
    /\ UNCHANGED <<genRequest, genConfig, genAttempts, genPath, genPuzzle,
                   genElapsed, genLoop, libVars, solverVars>>

\* Phase 6, one pass of the loop of _placeAndValidate; on success Phase 7 and
\* the return of the puzzle (the loop variable ends with the call)
InnerAttempt ==
    /\ genPc = "place"
    /\ genInner < InnerAttempts
    /\ \E result \in InnerAttemptResults(genConfig, genPlan) :
         IF result.success
         THEN /\ genPuzzle' = PuzzleOf(genConfig, result)
              /\ genPath' = "normal"
              /\ genPc' = "returned-puzzle"
              /\ genInner' = 0
         ELSE /\ genInner' = genInner + 1
              /\ UNCHANGED <<genPuzzle, genPath, genPc>>
    /\ UNCHANGED <<genRequest, genConfig, genAttempts, genPlan, genElapsed,
                   genLoop, libVars, solverVars>>

\* Phase 6 after the loop: the fallback; a failure ends the attempt
Fallback ==
    /\ genPc = "place"
    /\ genInner >= InnerAttempts
    /\ \E result \in FallbackResults(genConfig, genPlan) :
         IF result.success
         THEN /\ genPuzzle' = PuzzleOf(genConfig, result)
              /\ genPath' = "fallback"
              /\ genPc' = "returned-puzzle"
         ELSE /\ genPc' = "loop"
              /\ UNCHANGED <<genPuzzle, genPath>>
    /\ genInner' = 0
    /\ UNCHANGED <<genRequest, genConfig, genAttempts, genPlan, genElapsed,
                   genLoop, libVars, solverVars>>

\* requirements as the solver reads them: a color the puzzle does not have
\* compares like 0
SolverReqs(requirements) ==
    LET Of(req) == [green |-> IF "green" \in DOMAIN req THEN req.green ELSE 0,
                    blue  |-> IF "blue" \in DOMAIN req THEN req.blue ELSE 0]
    IN  [rows |-> [r \in DOMAIN requirements.rows |-> Of(requirements.rows[r])],
         cols |-> [c \in DOMAIN requirements.cols |-> Of(requirements.cols[c])]]

\* the shapes the generator selected, all colors together
SelectedShapeIds(shapeSelection) ==
    Flatten([k \in 1..Len(KeysOf(genConfig, shapeSelection.colorShapes)) |->
               LET shapes == shapeSelection.colorShapes[
                                 KeysOf(genConfig, shapeSelection.colorShapes)[k]]
               IN  [n \in 1..Len(shapes) |-> shapes[n].shapeId]])

\* the shapeCounts object of the selected shapes: id -> number of copies
ShapeCountsOf(shapeSelection) ==
    LET ids == SelectedShapeIds(shapeSelection)
        Copies(id) == Cardinality({n \in 1..Len(ids) : ids[n] = id})
        Selected(id) == Copies(id) > 0
        order == SelectSeq(ShapeOrder, Selected)
    IN  [k \in 1..Len(order) |-> [id |-> order[k], count |-> Copies(order[k])]]

\* the returned puzzle handed to solve_exact_counts
SolveGenerated ==
    /\ genPc = "returned-puzzle"
    /\ solverCall = "none"
    /\ LET reqs == SolverReqs(genPuzzle.requirements)
           shapeCounts == ShapeCountsOf(genPlan.shapeSelection)
       IN  /\ solverInput' = SolverArgs(genConfig.gridRows, genConfig.gridCols,
                                        genPuzzle.grid, reqs, shapeCounts)
           /\ solverOutcome' = runSolverWithShapeCounts(genConfig.gridRows,
                                   genConfig.gridCols, genPuzzle.grid,
                                   reqs.rows, reqs.cols, shapeCounts)
    /\ solverCall' = "solve_exact_counts"
    /\ UNCHANGED <<genVars, libVars, search>>

\* the returned puzzle handed to solve_counts with the shape pool enabled
SolveGeneratedFree ==
    /\ genPc = "returned-puzzle"
    /\ solverCall = "none"
    /\ LET reqs == SolverReqs(genPuzzle.requirements)
       IN  /\ solverInput' = SolverArgs(genConfig.gridRows, genConfig.gridCols,
                                        genPuzzle.grid, reqs,
                                        ShapeCountsOf(genPlan.shapeSelection))
           /\ solverOutcome' = runSolver(genConfig.gridRows, genConfig.gridCols,
                                         genPuzzle.grid, reqs.rows, reqs.cols,
                                         genConfig.shapePool)
    /\ solverCall' = "solve_counts"
    /\ UNCHANGED <<genVars, libVars, search>>

GenNext ==
    \/ Generate
    \/ TimeRunsOut
    \/ StartAttempt
    \/ DeadlinePassed
    \/ PlanAttempt
    \/ InnerAttempt
    \/ Fallback
    \/ SolveGenerated
    \/ SolveGeneratedFree

SpecGen == GenInit /\ [][GenNext]_vars

\* generate({gridRows: 3, gridCols: 3, colors: ['green'], shapePool: ['line-3']})
LineGridInit ==
    /\ genRequest = GenRequest(3, 3, <<"green">>, <<"line-3">>)
    /\ genConfig = <<>>
    /\ genPc = "start"
    /\ genAttempts = 0
    /\ genPlan = <<>>
    /\ genInner = 0
    /\ genPath = "none"
    /\ genPuzzle = <<>>
    /\ genElapsed = "within"
    /\ genLoop = <<>>
    /\ LibIdle
    /\ SolverIdle

\* the attempts whose Math.random() < 0.5 of Phase 5 draws 'symmetrical'
PlanSymmetricalAttempt == PlanAttempt /\ genPlan'.strategy # "chaotic"

LineGridNext ==
    \/ Generate
    \/ TimeRunsOut
    \/ StartAttempt
    \/ DeadlinePassed
    \/ PlanSymmetricalAttempt
    \/ InnerAttempt
    \/ Fallback
    \/ SolveGenerated
    \/ SolveGeneratedFree

\* the runs of generate on the 3x3 line grid that plan symmetrical blockers;
\* each of them is a run of generate
SpecLineGrid == LineGridInit /\ [][LineGridNext]_vars

----------------------------------------------------------------------------
(* The symmetrical loops of _placeBlockers and _placeLocks, draw by draw *)

\* Math.floor(rows / 2) in place of Math.ceil(rows / 2)
SymmetricalDraws_Floor(rows, cols) == (0..((rows \div 2) - 1)) \X (0..((cols \div 2) - 1))

\* the (r, c) a draw of the symmetrical blocker loop can give:
\* Math.floor(Math.random() * Math.ceil(rows / 2)), the same for cols
SymmetricalDraws(rows, cols) ==
    (0..(((rows + 1) \div 2) - 1)) \X (0..(((cols + 1) \div 2) - 1))

\* the configs whose placement loops are followed draw by draw
LoopRequests ==
    {GenRequest(3, 3, <<"green">>, <<"line-3">>),
     WithFlags(GenRequest(2, 3, <<"green">>, <<"line-3">>), FALSE, TRUE),
     WithFlags(GenRequest(2, 3, <<"green">>, <<"line-3", "L-3">>), TRUE, TRUE),
     WithFlags(GenRequest(3, 3, <<"green", "blue">>, <<"square-4", "line-3">>), TRUE, TRUE),
     WithFlags(GenRequest(2, 5, <<"green", "blue">>, <<"line-3">>), TRUE, TRUE)}

LoopInit ==
    /\ genRequest \in LoopRequests
    /\ genConfig = <<>>
    /\ genPc = "start"
    /\ genAttempts = 0
    /\ genPlan = <<>>
    /\ genInner = 0
    /\ genPath = "none"
    /\ genPuzzle = <<>>
    /\ genElapsed = "within"
    /\ genLoop = <<>>
    /\ LibIdle
    /\ SolverIdle

LoopKeys == KeysOf(genConfig, genPlan.lockDistribution)
LoopRows == genConfig.gridRows
LoopCols == genConfig.gridCols

\* _placeAndValidate creates the grid and calls _placeBlockers
EnterPlaceBlockers ==
    /\ genPc = "place"
    /\ genPlan.strategy = "symmetrical"
    /\ genLoop = <<>>
    /\ genLoop' = [pc |-> "blockers", grid |-> EmptyGrid(LoopRows, LoopCols),
                   blockers |-> <<>>, locks |-> <<>>, k |-> 1, placed |-> <<>>]
    /\ UNCHANGED <<genRequest, genConfig, genPc, genAttempts, genPlan, genInner, genPath,
                   genPuzzle, genElapsed, libVars, solverVars>>

\* one pass of while (placed < count) of the symmetrical blockers
BlockerDraw ==
    /\ genLoop # <<>>
    /\ genLoop.pc = "blockers"
    /\ Len(genLoop.blockers) < genPlan.blockerLockBudget.blockerBudget
    /\ \E d \in SymmetricalDraws(LoopRows, LoopCols) :
         LET st == MirrorPlace([grid |-> genLoop.grid, cells |-> genLoop.blockers],
                               MirrorPositions(genLoop.grid, d[1], d[2]), 1,
                               genPlan.blockerLockBudget.blockerBudget)
         IN  genLoop' = [genLoop EXCEPT !.grid = st.grid, !.blockers = st.cells]
    /\ UNCHANGED <<genRequest, genConfig, genPc, genAttempts, genPlan, genInner, genPath,
                   genPuzzle, genElapsed, libVars, solverVars>>

\* the blocker loop is left, _placeBlockers returns, _placeLocks is called
EnterPlaceLocks ==
    /\ genLoop # <<>>
    /\ genLoop.pc = "blockers"
    /\ Len(genLoop.blockers) >= genPlan.blockerLockBudget.blockerBudget
    /\ genLoop' = [genLoop EXCEPT !.pc = "locks", !.k = 1, !.placed = <<>>]
    /\ UNCHANGED <<genRequest, genConfig, genPc, genAttempts, genPlan, genInner, genPath,
                   genPuzzle, genElapsed, libVars, solverVars>>

\* one pass of while (placed < count) of the symmetrical locks of a color
LockDraw ==
    /\ genLoop # <<>>
    /\ genLoop.pc = "locks"
    /\ genLoop.k <= Len(LoopKeys)
    /\ Len(genLoop.placed) < genPlan.lockDistribution[LoopKeys[genLoop.k]]
    /\ \E cell \in GridCells(LoopRows, LoopCols) :
         IF genLoop.grid[cell[1]][cell[2]] = "empty"
         THEN genLoop' = [genLoop EXCEPT
                            !.grid = SetCell(genLoop.grid, cell,
                                             LockedState(LoopKeys[genLoop.k])),
                            !.placed = Append(genLoop.placed, cell)]
         ELSE UNCHANGED genLoop
    /\ UNCHANGED <<genRequest, genConfig, genPc, genAttempts, genPlan, genInner, genPath,
                   genPuzzle, genElapsed, libVars, solverVars>>

\* the lock loop of a color is left: the next color of Object.keys(distribution)
NextLockColor ==
    /\ genLoop # <<>>
    /\ genLoop.pc = "locks"
    /\ genLoop.k <= Len(LoopKeys)
    /\ Len(genLoop.placed) >= genPlan.lockDistribution[LoopKeys[genLoop.k]]
    /\ genLoop' = [genLoop EXCEPT
                     !.locks = PutEntry(genLoop.locks, LoopKeys[genLoop.k], genLoop.placed),
                     !.k = genLoop.k + 1, !.placed = <<>>]
    /\ UNCHANGED <<genRequest, genConfig, genPc, genAttempts, genPlan, genInner, genPath,
                   genPuzzle, genElapsed, libVars, solverVars>>

\* _placeLocks returns
LocksPlaced ==
    /\ genLoop # <<>>
    /\ genLoop.pc = "locks"
    /\ genLoop.k > Len(LoopKeys)
    /\ genLoop' = [genLoop EXCEPT !.pc = "placed"]
    /\ UNCHANGED <<genRequest, genConfig, genPc, genAttempts, genPlan, genInner, genPath,
                   genPuzzle, genElapsed, libVars, solverVars>>

LoopNext ==
    \/ Generate
    \/ StartAttempt
    \/ PlanSymmetricalAttempt
    \/ EnterPlaceBlockers
    \/ BlockerDraw
    \/ EnterPlaceLocks
    \/ LockDraw
    \/ NextLockColor
    \/ LocksPlaced

\* every draw is Math.random(): a draw that can place a cell is not put off
\* for ever, and a loop whose condition is false is left
SpecLoops ==
    /\ LoopInit /\ [][LoopNext]_vars
    /\ WF_vars(BlockerDraw) /\ WF_vars(EnterPlaceLocks)
    /\ WF_vars(LockDraw) /\ WF_vars(NextLockColor) /\ WF_vars(LocksPlaced)

----------------------------------------------------------------------------
(* Phases 1 to 5 on their own: grids, colors, pools and flags *)

\* config.colors: the phases read the colors as keys only
PlanColorLists == {<<"green">>, <<"green", "blue">>, <<"green", "blue", "red">>}

PlanPools == {<<"line-3">>, <<"square-4", "line-3">>, <<"square-4">>}

\* the grid sizes <<rows, cols>> of at most MaxPlanCells cells
PlanSizes == {d \in (1..MaxPlanCells) \X (1..MaxPlanCells) : d[1] * d[2] <= MaxPlanCells}

PlanRequests ==
    {WithFlags(GenRequest(d[1], d[2], colors, shapePool), blockers, locks) :
        d \in PlanSizes, colors \in PlanColorLists, shapePool \in PlanPools,
        blockers \in BOOLEAN, locks \in BOOLEAN}

PlanInit ==
    /\ genRequest \in PlanRequests
    /\ genConfig = <<>>
    /\ genPc = "start"
    /\ genAttempts = 0
    /\ genPlan = <<>>
    /\ genInner = 0
    /\ genPath = "none"
    /\ genPuzzle = <<>>
    /\ genElapsed = "within"
    /\ genLoop = <<>>
    /\ LibIdle
    /\ SolverIdle

PlanNext ==
    \/ Generate
    \/ StartAttempt
    \/ PlanAttempt

SpecPlan == PlanInit /\ [][PlanNext]_vars

----------------------------------------------------------------------------
(* Properties of the generator *)

Returned == genPc = "returned-puzzle"
GenColors == Range(genConfig.colors)

\* the cell lists of a returned puzzle: solution and locks per color, blockers
PuzzleParts ==
    {<<"solution", color>> : color \in GenColors}
    \cup {<<"locks", color>> : color \in GenColors}
    \cup {<<"blockers", "">>}

PartCells(part) ==
    CASE part[1] = "solution" -> genPuzzle.solution[part[2]]
      [] part[1] = "locks" -> genPuzzle.locks[part[2]]
      [] part[1] = "blockers" -> genPuzzle.blockers

\* solution of every color, then blockers, then locks of every color
AllPartCells ==
    Flatten([k \in 1..Len(genConfig.colors) |-> genPuzzle.solution[genConfig.colors[k]]])
    \o genPuzzle.blockers
    \o Flatten([k \in 1..Len(genConfig.colors) |-> genPuzzle.locks[genConfig.colors[k]]])

\* C3: in every puzzle generate returns, from the attempt loop or from the
\* fallback, solution[color] of every color, blockers and locks[color] of every
\* color hold no cell twice and share no cell with one another, so their
\* sizes sum to at most gridRows x gridCols.
C3_PartsPairwiseDisjoint ==
    Returned =>
        /\ \A part \in PuzzleParts : NoRepeats(PartCells(part))
        /\ \A p, q \in PuzzleParts :
               p # q => Range(PartCells(p)) \cap Range(PartCells(q)) = {}
        /\ Len(AllPartCells) <= genConfig.gridRows * genConfig.gridCols

\* a two-color puzzle returned by the fallback with blockers and with locks
\* of both colors
C3_Witness ==
    /\ Returned
    /\ genPath = "fallback"
    /\ genPuzzle.blockers # <<>>
    /\ \A color \in {"green", "blue"} :
           /\ color \in GenColors
           /\ genPuzzle.locks[color] # <<>>
           /\ genPuzzle.solution[color] # <<>>

\* C4: in every puzzle generate returns, whatever the blockers and locks
\* settings, the requirement of every color in every row and every column
\* equals the number of cells of solution[color] in that row or column.
C4_RequirementsMatchSolution ==
    Returned =>
        \A color \in GenColors :
            /\ \A r \in 0..(genConfig.gridRows - 1) :
                   genPuzzle.requirements.rows[r][color]
                       = InRow(genPuzzle.solution[color], r)
            /\ \A c \in 0..(genConfig.gridCols - 1) :
                   genPuzzle.requirements.cols[c][color]
                       = InCol(genPuzzle.solution[color], c)

\* the cells of the generator's own solution for a color
GeneratedCells(color) ==
    IF color \in GenColors THEN Range(genPuzzle.solution[color]) ELSE {}

\* C5: solve_exact_counts, called with the grid and the requirements of a
\* returned puzzle and the shapes the generator selected, succeeds, and one of
\* its solutions has the cells of the generator's solution for green and blue.
C5_RoundTripFindsGeneratedSolution ==
    (Returned /\ solverCall = "solve_exact_counts") =>
        /\ Result.success
        /\ \E k \in 1..Len(Result.solutions) :
               /\ Range(Result.solutions[k].green) = GeneratedCells("green")
               /\ Range(Result.solutions[k].blue) = GeneratedCells("blue")

\* C12: generate starts an attempt only at its loop condition and only while
\* the time budget is not used up; an attempt that fails in shape selection or
\* in placement leads back to the loop condition and to nothing else; the
\* puzzle returned is that of the attempt that just succeeded, no earlier
\* attempt having produced one, and nothing runs after a return; null is
\* returned only from the loop condition once the time is over.
C12_RetryUntilDeadline ==
    [][ /\ genAttempts' # genAttempts =>
              /\ genPc = "loop" /\ genElapsed = "within"
              /\ genAttempts' = genAttempts + 1 /\ genPc' = "attempt"
        /\ genPc \in {"attempt", "place"} =>
              genPc' \in {"attempt", "place", "loop", "returned-puzzle"}
        /\ (genPc' = "returned-puzzle" /\ genPc # "returned-puzzle") =>
              /\ genPc = "place" /\ genAttempts' = genAttempts
              /\ genPuzzle = <<>> /\ genPuzzle' # <<>>
        /\ (genPc' = "returned-null" /\ genPc # "returned-null") =>
              /\ genPc = "loop" /\ genElapsed = "over"
              /\ genPuzzle = <<>> /\ genPuzzle' = <<>>
        /\ genPc \in {"returned-puzzle", "returned-null"} =>
              UNCHANGED <<genPc, genAttempts, genPuzzle, genElapsed>>
      ]_vars

\* a puzzle returned by the second attempt, the first one having failed
C12_Witness ==
    /\ Returned
    /\ genAttempts >= 2

----------------------------------------------------------------------------
(* Properties of fit_all_pieces *)

FitSucceeded == solverCall = "fit_all_pieces" /\ Result.success

\* C13: fit_all_pieces stops at the first complete placement of all
\* instances: a successful call returns one solution, as for the four
\* square-4 on the empty 4x4 grid.
C13_FitReturnsFirstSolutionOnly ==
    FitSucceeded => Len(Result.solutions) = 1

\* C14: every solution of a successful fit_all_pieces call has one placement
\* per requested instance, of the instance's shape id, the placements share no
\* cell, lie on the grid and on no blocked cell, and its cell list is their
\* cells; a call that does not succeed returns a failure and no placement.
C14_FitConsumesEveryInstance ==
    solverCall = "fit_all_pieces" =>
        LET shapeInstances == ShapeInstancesOf(solverInput.shapeCounts)
            cells == GridCells(solverInput.gridRows, solverInput.gridCols)
        IN  IF Result.success
            THEN /\ Len(Result.solutions) >= 1
                 /\ \A k \in 1..Len(Result.solutions) :
                      LET sol == Result.solutions[k]
                          ps == sol.greenPlacements
                      IN  /\ Len(ps) = Len(shapeInstances)
                          /\ \A n \in 1..Len(ps) :
                                 /\ ps[n].shapeId = shapeInstances[n]
                                 /\ Range(ps[n].cells) \in
                                      {Range(PlacedAt) :
                                         PlacedAt \in
                                           {[i \in 1..Len(rot) |->
                                               <<a[1] + rot[i][1], a[2] + rot[i][2]>>] :
                                            a \in cells,
                                            rot \in Range(SHAPE_LIBRARY[ps[n].shapeId].rotations)}}
                                 /\ Range(ps[n].cells) \subseteq cells
                                 /\ Range(ps[n].cells) \cap Range(solverInput.blockedCells) = {}
                          /\ \A m, n \in 1..Len(ps) :
                                 m # n => Range(ps[m].cells) \cap Range(ps[n].cells) = {}
                          /\ sol.green = UsedCellList(ps)
                          /\ NoRepeats(sol.green)
                          /\ \A j \in 1..Len(solverInput.shapeCounts) :
                                 Cardinality({n \in 1..Len(ps) :
                                     ps[n].shapeId = solverInput.shapeCounts[j].id})
                                   = solverInput.shapeCounts[j].count
            ELSE DOMAIN Result = {"success", "message"}

\* a solution with two shapes of different ids around two blocked cells
C14_Witness ==
    /\ FitSucceeded
    /\ Len(solverInput.blockedCells) = 2
    /\ Len(Result.solutions[1].greenPlacements) = 2
    /\ Cardinality({Result.solutions[1].greenPlacements[n].shapeId : n \in 1..2}) = 2

\* C16: a puzzle generated with blockers enabled and locks disabled has, for
\* both strategies and both paths, exactly totalRemainder blockers (the
\* remainders of the colors plus the reserve) and no lock of any color.
C16_BlockersFillTotalRemainder ==
    (Returned /\ genConfig.blockers /\ ~genConfig.locks) =>
        /\ Len(genPuzzle.blockers)
             = genPlan.shapeSelection.totalRemainder + genPlan.budget.reserveNeeded
        /\ \A color \in GenColors : genPuzzle.locks[color] = <<>>

\* C17: solve_counts, called with the grid and the requirements of a returned
\* puzzle and the shape pool as enabled shapes, succeeds with a solution whose
\* cells per row and column are the requirements of green and of blue.
C17_GeneratedPuzzleIsSolvable ==
    (Returned /\ solverCall = "solve_counts") =>
        /\ Result.success
        /\ \E k \in 1..Len(Result.solutions) :
               LET sol == Result.solutions[k]
               IN  /\ \A r \in 0..(genConfig.gridRows - 1) :
                          /\ InRow(sol.green, r) = solverInput.rowReqs[r].green
                          /\ InRow(sol.blue, r) = solverInput.rowReqs[r].blue
                   /\ \A c \in 0..(genConfig.gridCols - 1) :
                          /\ InCol(sol.green, c) = solverInput.colReqs[c].green
                          /\ InCol(sol.blue, c) = solverInput.colReqs[c].blue
\* C18: on a 3x3 grid with colors {green}, shapePool {line-3} and blockers at
\* their default, every puzzle generate returns holds three line-3 placements,
\* all horizontal or all vertical, whose cells are the 9 cells of the grid.
C18_ThreeLinesFillTheGrid ==
    (/\ Returned
     /\ genConfig.gridRows = 3 /\ genConfig.gridCols = 3
     /\ genConfig.colors = <<"green">> /\ genConfig.shapePool = <<"line-3">>
     /\ genConfig.blockers) =>
        LET placed == genPuzzle.shapes["green"]
        IN  /\ Len(placed) = 3
            /\ \A k \in 1..Len(placed) :
                   /\ placed[k].shapeId = "line-3"
                   /\ placed[k].rotationIndex = placed[1].rotationIndex
            /\ Range(genPuzzle.solution["green"]) = GridCells(3, 3)
LoopRunning(pc) == genLoop # <<>> /\ genLoop.pc = pc

\* C20: the symmetrical loops of _placeBlockers and _placeLocks, as
\* _placeAndValidate calls them, always end under fair random choice with
\* exactly the requested count of blockers and of locks of every color:
\* while a loop runs with placed < count the grid has an empty cell that a
\* draw of the loop (with its mirror positions for blockers) can select.
C20_SymmetricalLoopsTerminate ==
    /\ [](LoopRunning("blockers")
          /\ Len(genLoop.blockers) < genPlan.blockerLockBudget.blockerBudget
          => \E d \in SymmetricalDraws(LoopRows, LoopCols) :
                MirrorPositions(genLoop.grid, d[1], d[2]) # <<>>)
    /\ [](LoopRunning("locks") /\ genLoop.k <= Len(LoopKeys)
          /\ Len(genLoop.placed) < genPlan.lockDistribution[LoopKeys[genLoop.k]]
          => EmptyCellsOf(genLoop.grid) # {})
    /\ [](LoopRunning("placed")
          => /\ Len(genLoop.blockers) = genPlan.blockerLockBudget.blockerBudget
             /\ \A color \in Range(LoopKeys) :
                    Len(genLoop.locks[color]) = genPlan.lockDistribution[color])
    /\ (LoopRunning("blockers") ~> LoopRunning("placed"))

\* both loops have run and have placed blockers and locks of two colors
C20_Witness ==
    /\ LoopRunning("placed")
    /\ Len(genLoop.blockers) >= 2
    /\ Len(LoopKeys) = 2
    /\ \A color \in Range(LoopKeys) : Len(genLoop.locks[color]) >= 1
\* the cells of the returned grid in a state
GridCellsInState(state) ==
    {cell \in GridCells(genConfig.gridRows, genConfig.gridCols) :
        genPuzzle.grid[cell[1]][cell[2]] = state}

SolutionCells == UNION {Range(genPuzzle.solution[color]) : color \in GenColors}

\* C21: on the fallback path exactly blockerBudget cells become blockers and
\* exactly distribution[color] cells become locks of each color, all distinct
\* and none of them a shape cell; the returned grid is blocked exactly on the
\* blockers, locked-color exactly on locks[color], and every shape cell still
\* holds its color.
C21_FallbackFillsEmptyCells ==
    (Returned /\ genPath = "fallback") =>
        /\ Len(genPuzzle.blockers) = genPlan.blockerLockBudget.blockerBudget
        /\ \A color \in GenColors :
               Len(genPuzzle.locks[color]) = genPlan.lockDistribution[color]
        /\ NoRepeats(AllPartCells)
        /\ GridCellsInState("blocked") = Range(genPuzzle.blockers)
        /\ \A color \in GenColors :
               /\ GridCellsInState(LockedState(color)) = Range(genPuzzle.locks[color])
               /\ GridCellsInState(color) = Range(genPuzzle.solution[color])

\* a fallback puzzle with blockers and with locks
C21_Witness ==
    /\ Returned /\ genPath = "fallback"
    /\ Len(genPuzzle.blockers) >= 1
    /\ \E color \in GenColors : Len(genPuzzle.locks[color]) >= 1
RECURSIVE CellCountSum(_)
CellCountSum(shapes) ==
    IF shapes = <<>> THEN 0 ELSE Head(shapes).cellCount + CellCountSum(Tail(shapes))

Planned == genPlan # <<>>

\* C22: for each color of a selection that succeeded, the cell counts of the
\* selected shapes plus the remainder are the color's budget, the remainder
\* is >= 0, no shape of the pool fits the remainder and the list is not
\* empty; a selection in which a color ended with no shape (its budget <= 0
\* included) fails the attempt, which places nothing and returns no puzzle.
C22_SelectionFillsBudget ==
    Planned =>
        LET sel == genPlan.shapeSelection
        IN  IF sel.success
            THEN \A color \in GenColors :
                    /\ sel.colorShapes[color] # <<>>
                    /\ CellCountSum(sel.colorShapes[color]) + sel.colorRemainders[color]
                         = genPlan.budget.colorBudgets[color]
                    /\ sel.colorRemainders[color] >= 0
                    /\ ValidShapes(genConfig, sel.colorRemainders[color]) = <<>>
            ELSE /\ genPc \in {"loop", "attempt", "returned-null"}
                 /\ genPuzzle = <<>>
                 /\ \E color \in GenColors :
                        /\ color \notin DOMAIN sel.colorShapes
                        /\ \/ genPlan.budget.colorBudgets[color] <= 0
                           \/ ValidShapes(genConfig, genPlan.budget.colorBudgets[color]) = <<>>

\* a selection that stopped with cells of the budget left over
C22_Witness ==
    /\ Planned /\ genPc = "place"
    /\ \E color \in GenColors :
          /\ genPlan.shapeSelection.colorRemainders[color] > 0
          /\ Len(genPlan.shapeSelection.colorShapes[color]) >= 1
\* an attempt that passed shape selection
PlanPassed == Planned /\ genPlan.shapeSelection.success

\* C23: totalRemainder is the sum of the color remainders plus the reserve;
\* with blockers and locks blockerBudget = floor(totalRemainder / 2) and
\* lockBudget = totalRemainder - blockerBudget, with blockers only
\* blockerBudget = totalRemainder and lockBudget = 0, with locks only the
\* reverse, with neither both are 0; the lock distribution sums to lockBudget
\* and gives every color at least floor(lockBudget / K).
C23_BudgetsConserveRemainder ==
    PlanPassed =>
        LET bl == genPlan.blockerLockBudget
            sel == genPlan.shapeSelection
            K == Len(genConfig.colors)
        IN  /\ bl.totalRemainder
                 = SumOver(sel.colorRemainders, GenColors) + genPlan.budget.reserveNeeded
            /\ (genConfig.blockers /\ genConfig.locks) =>
                   /\ bl.blockerBudget = bl.totalRemainder \div 2
                   /\ bl.lockBudget = bl.totalRemainder - bl.blockerBudget
            /\ (genConfig.blockers /\ ~genConfig.locks) =>
                   /\ bl.blockerBudget = bl.totalRemainder /\ bl.lockBudget = 0
            /\ (~genConfig.blockers /\ genConfig.locks) =>
                   /\ bl.blockerBudget = 0 /\ bl.lockBudget = bl.totalRemainder
            /\ (~genConfig.blockers /\ ~genConfig.locks) =>
                   /\ bl.blockerBudget = 0 /\ bl.lockBudget = 0
            /\ DOMAIN genPlan.lockDistribution = GenColors
            /\ SumOver(genPlan.lockDistribution, GenColors) = bl.lockBudget
            /\ \A color \in GenColors :
                   genPlan.lockDistribution[color] >= bl.lockBudget \div K

\* blockers and locks, two colors, and a lock budget that does not divide
C23_Witness ==
    /\ PlanPassed
    /\ genConfig.blockers /\ genConfig.locks
    /\ Len(genConfig.colors) = 2
    /\ genPlan.blockerLockBudget.blockerBudget >= 1
    /\ genPlan.blockerLockBudget.lockBudget % 2 = 1
    /\ genPlan.lockDistribution["blue"] = genPlan.lockDistribution["green"] + 1
\* the cells of the returned grid filled with or locked for a color
ColorCellsOfGrid(color) == GridCellsInState(color) \cup GridCellsInState(LockedState(color))

RECURSIVE SumOfSeq(_)
SumOfSeq(s) == IF s = <<>> THEN 0 ELSE Head(s) + SumOfSeq(Tail(s))

\* C24: in every generated puzzle requirements.rows[r][k] is the number of
\* cells of row r of the returned grid that are filled with k or locked for
\* k, the same for columns; blocked and empty cells count for no color, and
\* the row total and the column total of each color are equal.
C24_RequirementsCountFilledAndLocked ==
    Returned =>
        LET R == genConfig.gridRows
            C == genConfig.gridCols
            req == genPuzzle.requirements
        IN  /\ DOMAIN req.rows = 0..(R - 1) /\ DOMAIN req.cols = 0..(C - 1)
            /\ \A color \in GenColors :
                  /\ \A r \in 0..(R - 1) :
                        req.rows[r][color]
                          = Cardinality({cell \in ColorCellsOfGrid(color) : cell[1] = r})
                  /\ \A c \in 0..(C - 1) :
                        req.cols[c][color]
                          = Cardinality({cell \in ColorCellsOfGrid(color) : cell[2] = c})
                  /\ SumOfSeq([n \in 1..R |-> req.rows[n - 1][color]])
                       = SumOfSeq([n \in 1..C |-> req.cols[n - 1][color]])
            /\ SumOfSeq([n \in 1..R |-> SumOver(req.rows[n - 1], GenColors)])
                 = R * C - Cardinality(GridCellsInState("blocked"))
                         - Cardinality(GridCellsInState("empty"))

\* a puzzle of two colors with blockers and with locks of both colors
C24_Witness ==
    /\ Returned
    /\ Len(genConfig.colors) = 2
    /\ GridCellsInState("blocked") # {}
    /\ \A color \in GenColors :
          GridCellsInState(LockedState(color)) # {} /\ GridCellsInState(color) # {}
\* the cells of the selected shapes of every color
SelectedShapeCells ==
    SumOfSeq([k \in 1..Len(genConfig.colors) |->
                CellCountSum(genPlan.shapeSelection.colorShapes[genConfig.colors[k]])])

\* K * floor((R * C - reserve) / K) + reserve
BudgetedCells ==
    Len(genConfig.colors) * genPlan.budget.budgetPerColor + genPlan.budget.reserveNeeded

DemandedCells ==
    SelectedShapeCells + genPlan.blockerLockBudget.blockerBudget
                       + genPlan.blockerLockBudget.lockBudget

\* C25 as stated: in every attempt that passes shape selection, the selected
\* shapes' cells + blockerBudget + lockBudget = K * floor((R * C - reserve) / K)
\* + reserve <= R * C, for every blockers/locks setting.
C25_DemandEqualsBudget ==
    PlanPassed =>
        /\ DemandedCells = BudgetedCells
        /\ BudgetedCells <= genConfig.gridRows * genConfig.gridCols

\* C25 amended: in every attempt that passes shape selection the cells
\* demanded are at most K * floor((R * C - reserve) / K) + reserve <= R * C;
\* they are equal to it when blockers or locks are enabled, and with neither
\* they are the selected shapes' cells alone, short of it by the remainders.
C25_DemandWithinGrid ==
    PlanPassed =>
        /\ DemandedCells <= BudgetedCells
        /\ BudgetedCells <= genConfig.gridRows * genConfig.gridCols
        /\ (genConfig.blockers \/ genConfig.locks) => DemandedCells = BudgetedCells
        /\ (~genConfig.blockers /\ ~genConfig.locks) =>
               /\ DemandedCells = SelectedShapeCells
               /\ DemandedCells + genPlan.shapeSelection.totalRemainder = BudgetedCells

\* neither blockers nor locks, and a remainder left by the selection
C25_Witness ==
    /\ PlanPassed
    /\ ~genConfig.blockers /\ ~genConfig.locks
    /\ genPlan.shapeSelection.totalRemainder > 0
    /\ Len(genConfig.colors) >= 2

(* Properties of the backtracking searches *)

\* the cells of the placements on the stack, counted with repetition
RECURSIVE StackCellCount(_)
StackCellCount(placements) ==
    IF placements = <<>> THEN 0
    ELSE Len(Head(placements).cells) + StackCellCount(Tail(placements))

\* counters, used cells and stack of a search state agree
CountsAgree(st) ==
    /\ \A r \in DOMAIN st.rowCounts :
         st.rowCounts[r] = Cardinality({cell \in st.usedCells : cell[1] = r})
    /\ \A c \in DOMAIN st.colCounts :
         st.colCounts[c] = Cardinality({cell \in st.usedCells : cell[2] = c})
    /\ st.usedCells = UNION {Range(st.currentPlacements[k].cells) :
                               k \in DOMAIN st.currentPlacements}
    /\ StackCellCount(st.currentPlacements) = Cardinality(st.usedCells)

\* C27: at every step of the free-count and the exact-count searches
\* rowCounts[r] and colCounts[c] are the numbers of used cells in row r and
\* column c, the used cells are the disjoint union of the cells of the
\* placements on the stack, no used cell is forbidden, the used instance
\* indices of the tracking search are one per placement on the stack; and a
\* pop leaves counts, used cells, stack and used indices as they were before
\* the push.
C27_SearchStateConsistent ==
    /\ [](Searching =>
            /\ CountsAgree(search.st)
            /\ search.st.usedCells \cap search.forbiddenSet = {}
            /\ Len(search.saved) = Len(search.st.currentPlacements)
            /\ search.mode = "counts" =>
                 Cardinality(search.st.usedShapeIndices) = Len(search.st.currentPlacements)
            /\ search.mode # "counts" => search.st.usedShapeIndices = {})
    /\ [][PopPlacement => search'.st = search.saved[Len(search.saved)]]_vars

\* the tracking exact-count search has found a solution, holds a placement
\* on the stack and has just popped another one on top of it
C27_Witness ==
    /\ Searching
    /\ search.mode = "counts"
    /\ search.pc = "loop"
    /\ TopFrame.j > 0
    /\ Len(search.st.currentPlacements) >= 1
    /\ Len(search.solutions) >= 1
    /\ search.forbiddenSet # {}

====
